---- MODULE Spec2Model ----
(***************************************************************************)
(* State-machine model of the Instagram/Threads summarizer bot:            *)
(*   - the Telegram request path (handle_message, _handle_reel,            *)
(*     _handle_post, _handle_threads) and its two durable tables           *)
(*     (failed_tasks, processed_urls);                                     *)
(*   - the failure-recovery scheduler (RetryScheduler);                    *)
(*   - the Threads tiered dispatcher (ThreadsDownloader._download_sync).   *)
(* External collaborators (yt-dlp, Whisper, the LLM, the note store, the   *)
(* Threads API and page renders) are inputs drawn with \E.                 *)
(***************************************************************************)
EXTENDS Integers, Sequences, FiniteSets, TLC

\* ------------------------------------------------------------------ bounds
\* number of times the interval trigger fires in one behaviour
MaxSweeps == 2
\* posts of one author in a crawler-facing render
MaxPosts == 3
\* pieces of markup in one crawler-facing page
MaxBlocks == 3
\* posts discovered in one crawler-facing page
MaxDiscovered == 5
MaxItems == 4
MaxRefs == 3
\* failed tasks in the queue when the scheduler starts
MaxQueued == 2
\* message ids above the filter's cap that arrive in one behaviour
MaxFresh == 2
\* settings.max_retry_count (MAX_RETRY_COUNT in the environment, 3 when unset)
max_retry_count == 2

\* ------------------------------------------------------- program constants
\* size cap of the in-memory message-id filter and the number of ids evicted
MsgIdCap == 1000
MsgIdEvict == 500

\* settings.threads_enabled as read by handle_message (config.py declares no
\* such field; a deployment that serves Threads links has it set)
threads_enabled == TRUE
\* settings.allowed_chat_ids default: empty list, every chat is allowed
allowed_chat_ids == {}

\* ------------------------------------------------------------ input sets
Chats == {"chatA", "chatB"}
ReelUrl == "https://instagram.com/reel/R1"
PostUrl == "https://instagram.com/p/P1"
ThreadsUrl == "https://threads.net/t/T1"
URLS == {ReelUrl, PostUrl, ThreadsUrl}
\* the links in circulation in one behaviour: reels and Threads posts, or
\* Instagram image posts
LinkPools == {{ReelUrl, ThreadsUrl}, {PostUrl}}
NoLink == "hello"
MsgIds == {1, 2}

VARIABLES
  tasks,        \* failed_tasks table: sequence of FailedTask rows, id = index
  processed,    \* processed_urls table: sequence of ProcessedURL rows
  clock,        \* datetime.utcnow(), in retry intervals
  seenIds,      \* TelegramBotHandler._processed_message_ids
  links,        \* the links users share in this behaviour
  inflight,     \* accepted requests whose handler is suspended before the pipeline
  lastRun,      \* what the most recent handler invocation did
  sw,           \* the scheduler job: position in retry_failed_tasks / _retry_single_task
  completedOK,  \* history: URLs for which some pipeline run completed every stage
  accepted,     \* history: the (chat, message id) of the updates that passed the message-id filter
  d,            \* one ThreadsDownloader._download_sync call
  ssr,          \* one ThreadsDownloader._download_via_googlebot_ssr call, after the fetch
  ana,          \* one VideoVisualAnalyzer.analyze_images call
  acq,          \* one ThreadsDownloader.download_media call
  linkCall      \* one download / download_post call: the link check at its entry

vars == <<tasks, processed, clock, seenIds, links, inflight, lastRun, sw, completedOK, accepted, d, ssr, ana, acq, linkCall>>
pipeVars == <<tasks, processed, clock, seenIds, links, inflight, lastRun, sw, completedOK, accepted>>
\* the service objects, each exercised on its own
svcVars == <<d, ssr, ana, acq, linkCall>>
exceptD == <<pipeVars, ssr, ana, acq, linkCall>>
exceptSsr == <<pipeVars, d, ana, acq, linkCall>>
exceptAna == <<pipeVars, d, ssr, acq, linkCall>>
exceptAcq == <<pipeVars, d, ssr, ana, linkCall>>
exceptDl == <<pipeVars, d, ssr, ana, acq>>

\* ------------------------------------------------------------ URL grammar
\* InstagramDownloader.is_reel_url
is_reel_url(url) == url = ReelUrl
\* InstagramDownloader.validate_url: /reel/, /p/ and /reels/ links
validate_url(url) == url \in {ReelUrl, PostUrl}
\* TelegramBotHandler._extract_threads_url
extract_threads_url(text) == IF text = ThreadsUrl THEN text ELSE "none"
\* TelegramBotHandler._extract_instagram_url
extract_instagram_url(text) == IF text \in {ReelUrl, PostUrl} THEN text ELSE "none"

\* title recorded for a URL (download_result.title / "@author")
TitleOf(url) == IF url = ThreadsUrl THEN "@author" ELSE "title"

Range(s) == {s[i] : i \in DOMAIN s}

\* ------------------------------------------------------ database/models.py
TaskIsTerminal(t) == t.status \in {"success", "abandoned"}

NewFailedTask_counted(url, chat, et, msg, now) ==
  [url |-> url, chat |-> chat, error_type |-> et, error_message |-> msg,
   retry_count |-> 1, last_retry_at |-> 0, status |-> "pending"]
\* FailedTask(...) row as built by _save_failed_task, column defaults applied
NewFailedTask(url, chat, et, msg, now) ==
  [url |-> url, chat |-> chat, error_type |-> et, error_message |-> msg,
   retry_count |-> 0, last_retry_at |-> 0,
   status |-> "pending"]

\* TelegramBotHandler._save_failed_task
save_failed_task(ts, url, chat, et, msg, now) ==
  Append(ts, NewFailedTask(url, chat, et, msg, now))

increment_retry_by_two(t, now) ==
  [t EXCEPT !.retry_count = @ + 2, !.last_retry_at = now]
\* FailedTask.increment_retry
increment_retry(t, now) ==
  [t EXCEPT !.retry_count = @ + 1, !.last_retry_at = now]

\* FailedTask.mark_success
mark_success(t, now) ==
  [t EXCEPT !.status = "success", !.last_retry_at = now]

\* FailedTask.mark_abandoned
mark_abandoned(t, now) ==
  [t EXCEPT !.status = "abandoned", !.last_retry_at = now]

check_url_processed_same_chat(ps, url, chat) ==
  {i \in DOMAIN ps : ps[i].url = url /\ ps[i].chat = chat}
\* check_url_processed: the rows whose url equals the submitted one
check_url_processed(ps, url, chat) ==
  {i \in DOMAIN ps : ps[i].url = url}

\* the processed_urls.url UNIQUE constraint
UrlIsUnique(ps, url) == \A i \in DOMAIN ps : ps[i].url # url

\* save_processed_url: the row it inserts (raises when UrlIsUnique fails)
save_processed_url(ps, url, url_type, chat, title, now) ==
  Append(ps, [url |-> url, url_type |-> url_type, chat |-> chat,
              title |-> title, processed_at |-> now])

\* ------------------------------------------------- collaborator outcomes
\* One record decides how every collaborator of one pipeline run answers:
\*   pdl   downloader.download_post      dl    downloader.download / threads_downloader.download
\*   content  format_for_summary         tr    transcriber.transcribe
\*   vis   visual_analyzer / media       note  summarizer.generate_*_note / summarize
\*   roam  roam_sync.save_* / sync_to_roam
\* "raise" is an exception escaping the collaborator; fields of stages that
\* are never reached are fixed to "na".
Outcome(pdl, dl, content, tr, vis, note, roam) ==
  [pdl |-> pdl, dl |-> dl, content |-> content, tr |-> tr, vis |-> vis,
   note |-> note, roam |-> roam]

\* error messages InstagramDownloader._download_sync returns (downloader.py 407-429)
ReelDlFailures == {"private", "download_error"}
\* error messages InstagramDownloader._download_post_sync returns (downloader.py 588-614)
PostDlFailures == {"private_profile", "download_error"}
\* error messages ThreadsDownloader.download returns
ThreadsDlFailures == {"not_found", "tiers_exhausted"}
\* failures that no retry can cure
TerminalFailures == {"private", "private_profile", "not_found"}

NoteRoamOutcomes ==
  {<<"raise", "na">>, <<"fail", "na">>, <<"ok", "raise">>, <<"ok", "fail">>, <<"ok", "ok">>}

\* outcomes of one _handle_reel run
ReelOutcomes ==
  {Outcome("na", f, "na", "na", "na", "na", "na") : f \in ReelDlFailures}
  \cup {Outcome("na", "ok", "na", "raise", "na", "na", "na")}
  \cup {Outcome("na", "ok", "na", tr, "raise", "na", "na") : tr \in {"ok", "fail"}}
  \cup {Outcome("na", "ok", "na", "fail", vis, "na", "na") : vis \in {"fail", "none"}}
  \cup {Outcome("na", "ok", "na", tv[1], tv[2], nr[1], nr[2]) :
          tv \in {<<"ok", "ok">>, <<"ok", "fail">>, <<"ok", "none">>, <<"fail", "ok">>},
          nr \in NoteRoamOutcomes}

\* outcomes of one _handle_post run (a video post is handed to _handle_reel)
PostOutcomes ==
  {Outcome(f, "na", "na", "na", "na", "na", "na") : f \in PostDlFailures}
  \cup {Outcome("ok", "na", "na", "na", v, "na", "na") : v \in {"raise", "fail"}}
  \cup {Outcome("ok", "na", "na", "na", "ok", nr[1], nr[2]) : nr \in NoteRoamOutcomes}
  \cup {[o EXCEPT !.pdl = "is_reel"] : o \in ReelOutcomes}

\* outcomes of one _handle_threads run
ThreadsOutcomes ==
  {Outcome("na", f, "na", "na", "na", "na", "na") : f \in ThreadsDlFailures}
  \cup {Outcome("na", "ok", "empty", "na", "na", "na", "na")}
  \cup {Outcome("na", "ok", "text", "na", "raise", "na", "na")}
  \cup {Outcome("na", "ok", "text", "na", v, nr[1], nr[2]) :
          v \in {"none", "ok", "fail"}, nr \in NoteRoamOutcomes}

\* outcomes of one RetryScheduler._retry_full_process run
RetryOutcomes ==
  {Outcome("na", "download_error", "na", "na", "na", "na", "na")}
  \cup {Outcome("na", "ok", "na", t, "na", "na", "na") : t \in {"raise", "fail"}}
  \cup {Outcome("na", "ok", "na", "ok", "na", nr[1], nr[2]) :
          nr \in {<<"ok", "fail">>, <<"ok", "ok">>}}

\* ------------------------------------------------------- pipeline results
Reply(kind, detail) == [kind |-> kind, detail |-> detail]

RunResult(ts, ps, replies, calls, ok, endKind, cause) ==
  [tasks |-> ts, processed |-> ps, replies |-> replies, calls |-> calls,
   ok |-> ok, end |-> endKind, cause |-> cause]

\* a stage returned a failure result: _save_failed_task, then the failure reply
StageFailed(ts, ps, url, chat, et, msg, kind, calls, now) ==
  RunResult(save_failed_task(ts, url, chat, et, msg, now), ps,
            <<Reply(kind, msg)>>, calls, FALSE, kind, msg)

DownloadFailed_terminal_unqueued(ts, ps, url, chat, msg, calls, now) ==
  IF msg \in TerminalFailures
  THEN RunResult(ts, ps, <<Reply("download_failed", msg)>>, calls, FALSE,
                 "download_failed", msg)
  ELSE StageFailed(ts, ps, url, chat, "download", msg, "download_failed", calls, now)
\* "if not download_result.success" of the three handlers: whatever the
\* error message, a DOWNLOAD task is queued and the failure is reported
DownloadFailed(ts, ps, url, chat, msg, calls, now) ==
  StageFailed(ts, ps, url, chat, "download", msg, "download_failed", calls, now)

\* the handler's "except Exception" block: only the error reply is sent
StageRaised(ts, ps, replies, calls) ==
  RunResult(ts, ps, Append(replies, Reply("error", "exception")), calls,
            FALSE, "exception", "exception")

PublishAndRecord_failure_silent(ts, ps, url, chat, url_type, o, calls, tail, now) ==
  LET c5 == calls \o <<"publish">>
  IN IF o.roam = "raise" THEN StageRaised(ts, ps, <<>>, c5 \o tail)
     ELSE IF o.roam = "fail"
          THEN StageFailed(ts, ps, url, chat, "sync", "sync_error", "done_unsaved",
                           c5 \o tail, now)
     ELSE IF ~UrlIsUnique(ps, url)
          THEN [StageRaised(ts, ps, <<Reply("done", "summary")>>,
                            c5 \o <<"record">> \o tail)
                  EXCEPT !.ok = TRUE, !.end = "record_conflict"]
          ELSE RunResult(ts,
                         save_processed_url(ps, url, url_type, chat, TitleOf(url), now),
                         <<Reply("done", "summary")>>, c5 \o <<"record">> \o tail,
                         TRUE, "done", o.roam)
PublishAndRecord_record_first(ts, ps, url, chat, url_type, o, calls, tail, now) ==
  LET c5 == calls \o <<"record">>
      ts1 == IF o.roam = "fail"
             THEN save_failed_task(ts, url, chat, "sync", "sync_error", now)
             ELSE ts
      done == IF o.roam = "fail" THEN "done_unsaved" ELSE "done"
      rep == <<Reply(done, "summary")>>
  IN IF ~UrlIsUnique(ps, url)
     THEN [StageRaised(ts, ps, <<>>, c5 \o tail) EXCEPT !.end = "record_conflict"]
     ELSE IF o.roam = "raise"
          THEN StageRaised(ts, save_processed_url(ps, url, url_type, chat, TitleOf(url), now),
                           <<>>, c5 \o <<"publish">> \o tail)
          ELSE RunResult(ts1,
                         save_processed_url(ps, url, url_type, chat, TitleOf(url), now),
                         rep, c5 \o <<"publish">> \o tail, o.roam = "ok", done, o.roam)
\* steps 4 and after of the three handlers: store the note, reply with the
\* summary, record the URL.  A failed store queues a SYNC task and goes on.
PublishAndRecord(ts, ps, url, chat, url_type, o, calls, tail, now) ==
  LET c5 == calls \o <<"publish">>
      ts1 == IF o.roam = "fail"
             THEN save_failed_task(ts, url, chat, "sync", "sync_error", now)
             ELSE ts
      done == IF o.roam = "fail" THEN "done_unsaved" ELSE "done"
      rep == <<Reply(done, "summary")>>
  IN IF o.roam = "raise" THEN StageRaised(ts, ps, <<>>, c5 \o tail)
     ELSE IF ~UrlIsUnique(ps, url)
          THEN [StageRaised(ts1, ps, rep, c5 \o <<"record">> \o tail)
                  EXCEPT !.ok = (o.roam = "ok"), !.end = "record_conflict"]
          ELSE RunResult(ts1,
                         save_processed_url(ps, url, url_type, chat, TitleOf(url), now),
                         rep, c5 \o <<"record">> \o tail, o.roam = "ok", done, o.roam)

\* TelegramBotHandler._handle_reel
handle_reel(ts, ps, url, chat, o, pre, now) ==
  LET c1 == pre \o <<"download">>
      c2 == c1 \o <<"transcribe">>
      c3 == IF o.vis = "none" THEN c2 ELSE c2 \o <<"analyze">>
      c4 == c3 \o <<"summarize">>
      fin == <<"cleanup_audio", "cleanup_video">>
  IN IF o.dl # "ok"
       THEN DownloadFailed(ts, ps, url, chat, o.dl, c1, now)
     ELSE IF o.tr = "raise" THEN StageRaised(ts, ps, <<>>, c2 \o fin)
     ELSE IF o.vis = "raise" THEN StageRaised(ts, ps, <<>>, c3 \o fin)
     ELSE IF o.tr # "ok" /\ o.vis # "ok"
       THEN StageFailed(ts, ps, url, chat, "transcribe", "no_content",
                        "process_failed", c3 \o fin, now)
     ELSE IF o.note = "raise" THEN StageRaised(ts, ps, <<>>, c4 \o fin)
     ELSE IF o.note = "fail"
       THEN StageFailed(ts, ps, url, chat, "summarize", "note_error",
                        "note_failed", c4 \o fin, now)
     ELSE PublishAndRecord(ts, ps, url, chat, "instagram_reel", o, c4, fin, now)

\* TelegramBotHandler._handle_post
handle_post(ts, ps, url, chat, o, now) ==
  LET c1 == <<"download_post">>
      c2 == c1 \o <<"analyze">>
      c3 == c2 \o <<"summarize">>
      fin == <<"cleanup_post_images">>
  IN IF o.pdl = "is_reel" THEN handle_reel(ts, ps, url, chat, o, c1, now)
     ELSE IF o.pdl # "ok"
       THEN DownloadFailed(ts, ps, url, chat, o.pdl, c1, now)
     ELSE IF o.vis = "raise" THEN StageRaised(ts, ps, <<>>, c2 \o fin)
     ELSE IF o.vis = "fail"
       THEN StageFailed(ts, ps, url, chat, "transcribe", "image_analysis_failed",
                        "process_failed", c2 \o fin, now)
     ELSE IF o.note = "raise" THEN StageRaised(ts, ps, <<>>, c3 \o fin)
     ELSE IF o.note = "fail"
       THEN StageFailed(ts, ps, url, chat, "summarize", "note_error",
                        "note_failed", c3 \o fin, now)
     ELSE PublishAndRecord(ts, ps, url, chat, "instagram_post", o, c3, fin, now)

\* TelegramBotHandler._handle_threads
handle_threads(ts, ps, url, chat, o, now) ==
  LET c1 == <<"download">>
      c2 == IF o.vis = "none" THEN c1 ELSE c1 \o <<"download_media", "analyze">>
      c3 == c2 \o <<"summarize">>
      fin == IF o.vis = "none" THEN <<>> ELSE <<"cleanup_media">>
  IN IF o.dl # "ok"
       THEN DownloadFailed(ts, ps, url, chat, o.dl, c1, now)
     ELSE IF o.content = "empty"
       THEN RunResult(ts, ps, <<Reply("no_content", "empty")>>, c1, FALSE,
                      "no_content", "empty")
     ELSE IF o.vis = "raise" THEN StageRaised(ts, ps, <<>>, c2 \o fin)
     ELSE IF o.note = "raise" THEN StageRaised(ts, ps, <<>>, c3 \o fin)
     ELSE IF o.note = "fail"
       THEN StageFailed(ts, ps, url, chat, "summarize", "note_error",
                        "note_failed", c3 \o fin, now)
     ELSE PublishAndRecord(ts, ps, url, chat, "threads", o, c3, fin, now)

\* ------------------------------------------------------- temporary files
\* the files a run's downloads have written, read off the calls it made: a
\* download that is followed by the next stage has returned success.
\* downloader.download returns video_path and audio_path, download_post
\* image_paths, threads_downloader.download_media its image, video and audio
\* paths.
DownloadedFiles(calls) ==
  LET follows(a, b) ==
        \E i \in 1..(Len(calls) - 1) : calls[i] = a /\ calls[i + 1] = b
  IN (IF follows("download", "transcribe") THEN {"audio", "video"} ELSE {})
     \cup (IF follows("download_post", "analyze") THEN {"images"} ELSE {})
     \cup (IF follows("download_media", "analyze") THEN {"media"} ELSE {})

\* the files that a cleanup call unlinks
CleanedBy(call) ==
  CASE call = "cleanup_audio" -> {"audio"}
    [] call = "cleanup_video" -> {"video"}
    [] call = "cleanup_post_images" -> {"images"}
    [] call = "cleanup_media" -> {"media"}
    [] OTHER -> {}

\* the downloaded files still in storage when the run has made these calls
FilesLeft(calls) ==
  DownloadedFiles(calls) \ UNION {CleanedBy(calls[i]) : i \in DOMAIN calls}

\* ---------------------------------------------------------- handle_message
NoRun ==
  [id |-> 0, url |-> "none", chat |-> "none", handler |-> "none",
   replies |-> <<>>, calls |-> <<>>, ok |-> FALSE, end |-> "none",
   cause |-> "none", newTasks |-> {}]

\* TelegramBotHandler._is_authorized
is_authorized(chat) == allowed_chat_ids = {} \/ chat \in allowed_chat_ids

RememberId_evict_one_more(ids, mid) ==
  LET s == ids \cup {mid}
  IN IF Cardinality(s) > MsgIdCap
     THEN {x \in s : Cardinality({y \in s : y < x}) > MsgIdEvict}
     ELSE s
\* the message-id filter: add the id, and once the set exceeds the cap keep
\* only sorted(ids)[500:]
RememberId(ids, mid) ==
  LET s == ids \cup {mid}
  IN IF Cardinality(s) > MsgIdCap
     THEN {x \in s : Cardinality({y \in s : y < x}) >= MsgIdEvict}
     ELSE s

\* the reply of handle_message to a URL that check_url_processed found
CachedReply(row) ==
  Reply("cached", <<IF row.title = "" THEN "unknown" ELSE row.title, row.processed_at>>)

\* what handle_message does with an update that passed the message-id
\* filter: the handler it hands the URL to ("none": it returns by itself)
\* and the reply it sends before that
Route(ps, chat, text) ==
  LET turl == extract_threads_url(text)
      iurl == extract_instagram_url(text)
      url == IF turl # "none" /\ threads_enabled THEN turl ELSE iurl
      hit == check_url_processed(ps, url, chat)
      handler == IF turl # "none" /\ threads_enabled THEN "threads"
                 ELSE IF is_reel_url(iurl) THEN "reel" ELSE "post"
  IN IF ~is_authorized(chat)
       THEN [handler |-> "none", url |-> "none", end |-> "unauthorized",
             replies |-> <<Reply("unauthorized", "none")>>]
     ELSE IF url = "none"
       THEN [handler |-> "none", url |-> "none", end |-> "no_link", replies |-> <<>>]
     ELSE IF hit # {}
       THEN [handler |-> "none", url |-> url, end |-> "cached",
             replies |-> <<CachedReply(ps[CHOOSE i \in hit : TRUE])>>]
     ELSE [handler |-> handler, url |-> url, end |-> "accepted",
           replies |-> <<Reply("processing", "none")>>]

\* TelegramBotHandler.handle_message for an update whose message id is new,
\* up to the point where it awaits the platform handler.  Updates are plain
\* user messages (not from a bot, not a reply, not an edit) with a non-empty
\* text; Telegram numbers them upwards.
Submit ==
  /\ \E mid \in MsgIds \ seenIds, chat \in Chats, text \in links \cup {NoLink} :
       LET r == Route(processed, chat, text)
       IN /\ \A k \in MsgIds : k < mid => k \in seenIds
          /\ seenIds' = RememberId(seenIds, mid)
          /\ accepted' = accepted \cup {<<chat, mid>>}
          /\ lastRun' = [NoRun EXCEPT !.id = mid, !.chat = chat, !.url = r.url,
                                      !.handler = "handle_message",
                                      !.end = r.end, !.replies = r.replies]
          /\ inflight' = IF r.handler = "none" THEN inflight
                         ELSE inflight \cup
                              {[id |-> mid, url |-> r.url, chat |-> chat,
                                handler |-> r.handler]}
  /\ UNCHANGED <<tasks, processed, clock, sw, completedOK, svcVars, links>>

\* message ids of a long-running bot: the ids that have not arrived yet are
\* two early ones (message ids are numbered per chat) and the latest ones
LateIds == {3, 700}
FilterIds == LateIds \cup ((MsgIdCap + 2)..(MsgIdCap + 1 + MaxFresh))

\* TelegramBotHandler.handle_message, the whole call, for an update whose
\* message id is new and whose text holds no link
HandleText ==
  /\ \E mid \in FilterIds \ seenIds :
       /\ seenIds' = RememberId(seenIds, mid)
       /\ \E chat \in Chats :
            LET r == Route(processed, chat, NoLink)
            IN /\ accepted' = accepted \cup {<<chat, mid>>}
               /\ lastRun' = [NoRun EXCEPT !.id = mid, !.chat = chat, !.url = r.url,
                                         !.handler = "handle_message",
                                         !.end = r.end, !.replies = r.replies]
  /\ UNCHANGED <<tasks, processed, clock, inflight, sw, completedOK, svcVars, links>>

\* the message-id filter of handle_message: the update is skipped when its
\* message id is in _processed_message_ids, whatever its chat
Skips(ids, chat, mid) == mid \in ids

\* TelegramBotHandler.handle_message for an update that the filter skips:
\* it returns at once
Redeliver ==
  /\ \E mid \in seenIds \cap (MsgIds \cup FilterIds) : \E chat \in Chats :
       Skips(seenIds, chat, mid)
  /\ lastRun' = [NoRun EXCEPT !.handler = "handle_message",
                              !.end = "duplicate_message"]
  /\ UNCHANGED <<tasks, processed, clock, seenIds, accepted, inflight, sw, completedOK, svcVars, links>>

\* the rest of handle_message for request r: the platform handler runs the
\* pipeline with collaborator outcomes o
Finish(r, res) ==
  /\ tasks' = res.tasks
  /\ processed' = res.processed
  /\ inflight' = inflight \ {r}
  /\ completedOK' = IF res.ok THEN completedOK \cup {r.url} ELSE completedOK
  /\ lastRun' = [id |-> r.id, url |-> r.url, chat |-> r.chat, handler |-> r.handler,
                 replies |-> res.replies, calls |-> res.calls, ok |-> res.ok,
                 end |-> res.end, cause |-> res.cause,
                 newTasks |-> (DOMAIN res.tasks) \ (DOMAIN tasks)]
  /\ UNCHANGED <<clock, seenIds, accepted, sw, svcVars, links>>

\* what Telegram does with the handler's messages: the first reply ("sent",
\* TimedOut / NetworkError, or another TelegramError such as Forbidden or
\* RetryAfter) and the later edits of that reply
DeliveryOutcomes ==
  [first : {"sent", "timed_out", "refused"}, edits : {"sent", "failed"}]

\* the collaborator outcomes a platform handler can meet
OutcomesOf(handler) ==
  CASE handler = "reel" -> ReelOutcomes
    [] handler = "post" -> PostOutcomes
    [] OTHER -> ThreadsOutcomes

\* the platform handler that handle_message awaits
RunHandler(handler, ts, ps, url, chat, o, now) ==
  CASE handler = "reel" -> handle_reel(ts, ps, url, chat, o, <<>>, now)
    [] handler = "post" -> handle_post(ts, ps, url, chat, o, now)
    [] OTHER -> handle_threads(ts, ps, url, chat, o, now)

\* the messages that reach the chat: the first reply is guarded by
\* "except (TimedOut, NetworkError)" and leaves processing_message None, in
\* which case _safe_edit_message skips every edit; a failing edit is logged
Delivered(dv, replies) ==
  IF dv.first # "sent" THEN <<>>
  ELSE IF dv.edits = "sent" THEN <<Reply("processing", "none")>> \o replies
  ELSE <<Reply("processing", "none")>>

\* TelegramBotHandler.handle_message, the whole call, for an update whose
\* message id is new: the filter, the routing, the first reply and the
\* platform handler.  A TelegramError of the first reply that is neither
\* TimedOut nor NetworkError leaves handle_message at line 278 / 315.
HandleMessage ==
  /\ \E mid \in MsgIds \ seenIds, chat \in Chats, text \in links \cup {NoLink},
        dv \in DeliveryOutcomes :
       LET r == Route(processed, chat, text)
           run == [NoRun EXCEPT !.id = mid, !.chat = chat, !.url = r.url]
       IN /\ \A k \in MsgIds : k < mid => k \in seenIds
          /\ seenIds' = RememberId(seenIds, mid)
          /\ accepted' = accepted \cup {<<chat, mid>>}
          /\ IF r.handler = "none"
               THEN /\ lastRun' = [run EXCEPT !.handler = "handle_message",
                                              !.end = r.end, !.replies = r.replies]
                    /\ UNCHANGED <<tasks, processed, completedOK>>
             ELSE IF dv.first = "refused"
               THEN /\ lastRun' = [run EXCEPT !.handler = r.handler,
                                              !.end = "reply_raised"]
                    /\ UNCHANGED <<tasks, processed, completedOK>>
             ELSE \E o \in OutcomesOf(r.handler) :
                    LET res == RunHandler(r.handler, tasks, processed, r.url, chat,
                                          o, clock)
                    IN /\ tasks' = res.tasks
                       /\ processed' = res.processed
                       /\ completedOK' = IF res.ok THEN completedOK \cup {r.url}
                                         ELSE completedOK
                       /\ lastRun' = [run EXCEPT !.handler = r.handler,
                                                 !.replies = Delivered(dv, res.replies),
                                                 !.calls = res.calls, !.ok = res.ok,
                                                 !.end = res.end, !.cause = res.cause,
                                                 !.newTasks = (DOMAIN res.tasks)
                                                              \ (DOMAIN tasks)]
  /\ UNCHANGED <<clock, inflight, sw, svcVars, links>>

HandleReel ==
  \E r \in inflight : /\ r.handler = "reel"
                      /\ \E o \in ReelOutcomes :
                           Finish(r, handle_reel(tasks, processed, r.url, r.chat, o, <<>>, clock))

HandlePost ==
  \E r \in inflight : /\ r.handler = "post"
                      /\ \E o \in PostOutcomes :
                           Finish(r, handle_post(tasks, processed, r.url, r.chat, o, clock))

HandleThreads ==
  \E r \in inflight : /\ r.handler = "threads"
                      /\ \E o \in ThreadsOutcomes :
                           Finish(r, handle_threads(tasks, processed, r.url, r.chat, o, clock))

\* ------------------------------------------- services/threads_downloader.py
\* One call of ThreadsDownloader.download, step by step.  d.tiers lists the
\* retrieval strategies the call has invoked so far, in order:
\*   "api"     api.get_thread                  (tier 1)
\*   "ssr"     _download_via_googlebot_ssr     (tier 2)
\*   "scrape"  _download_via_web_scraping      (tier 3)

\* how _get_api ends: the client, the RuntimeError it raises when the library
\* cannot be imported, or any other exception (its text naming a rate limit or not)
GetApiOutcomes == {"ok", "import_error", "raise", "raise_rate_limit"}

NoResponse == [kind |-> "none", login |-> FALSE, notfound |-> FALSE, has404 |-> FALSE]

\* what api.get_thread can produce:
\*   "payload"  an error payload (status "fail" or a message); login / notfound:
\*              the lower-cased message contains "login" / "not found";
\*              has404: str(post_data) contains "404"
\*   "raise"    an exception; notfound / has404: its text contains "not found" / "404"
\*   "data"     a payload that is not an error payload
Tier1Responses ==
  {[kind |-> "payload", login |-> l, notfound |-> n, has404 |-> f] :
     l \in BOOLEAN, n \in BOOLEAN, f \in BOOLEAN}
  \cup {[kind |-> "raise", login |-> FALSE, notfound |-> n, has404 |-> f] :
          n \in BOOLEAN, f \in BOOLEAN}
  \cup {[kind |-> "data", login |-> FALSE, notfound |-> FALSE, has404 |-> FALSE]}

\* _download_via_googlebot_ssr: None, a single post, or the author's thread
\* (len(author_posts) # 1, and author_posts holds the first post: >= 2 posts)
SsrResult(ctype, n) == [content_type |-> ctype, posts |-> n]
SsrOutcomes ==
  {SsrResult("none", 0), SsrResult("single_post", 1)}
  \cup {SsrResult("thread", n) : n \in 2..MaxPosts}
\* _download_via_web_scraping: a ThreadPost or None
ScrapeOutcomes == {"post", "none"}
\* _parse_post_data: a ThreadPost or None
ParseOutcomes == {"ok", "none"}
\* _fetch_conversation: a conversation with replies, one without, or None
ConversationOutcomes == {"replies", "empty", "none"}

\* ThreadsDownloadResult: post tells whether the post field is set,
\* conversation what the conversation field holds ("none": not set),
\* thread_posts the length of that list, error_message "none" when not set
ThreadsDownloadResult(success, ctype, post, conversation, thread_posts, error) ==
  [success |-> success, content_type |-> ctype, post |-> post,
   conversation |-> conversation, thread_posts |-> thread_posts,
   error_message |-> error]
NoResult == ThreadsDownloadResult(FALSE, "na", FALSE, "none", 0, "none")

\* lines 446-459: the result object that _download_via_googlebot_ssr built
SsrReturned(s) ==
  IF s.content_type = "single_post"
  THEN ThreadsDownloadResult(TRUE, "single_post", TRUE, "none", 0, "none")
  ELSE ThreadsDownloadResult(TRUE, "thread", FALSE, "none", s.posts, "none")

ApiReturned_conversation_keeps_post(ctype, conversation) ==
  IF ctype = "thread_conversation"
  THEN ThreadsDownloadResult(TRUE, ctype, TRUE, conversation, 0, "none")
  ELSE ThreadsDownloadResult(TRUE, ctype, TRUE, "none", 0, "none")
\* lines 790-794, 814-818, 844-848 and 854-858: the results that
\* _download_sync builds itself
ApiReturned(ctype, conversation) ==
  IF ctype = "thread_conversation"
  THEN ThreadsDownloadResult(TRUE, ctype, FALSE, conversation, 0, "none")
  ELSE ThreadsDownloadResult(TRUE, ctype, TRUE, "none", 0, "none")

DIdle ==
  [pc |-> "idle", result |-> NoResult, t1 |-> NoResponse, api_failed |-> FALSE, parsed |-> "na",
   ssr |-> SsrResult("na", 0), scrape |-> "na", conversation |-> "na", tiers |-> <<>>,
   out |-> "none", source |-> "none", reason |-> "none", api |-> FALSE]

\* return ThreadsDownloadResult(success=True, content_type=ctype, ...)
DSuccess(st, ctype, source) ==
  [st EXCEPT !.pc = "done", !.out = ctype, !.source = source,
             !.result = IF source = "ssr" THEN SsrReturned(st.ssr)
                        ELSE ApiReturned(ctype, st.conversation)]
\* return ThreadsDownloadResult(success=False, error_message=reason)
DFailure(st, reason) ==
  [st EXCEPT !.pc = "done", !.out = "failure", !.reason = reason,
             !.result = ThreadsDownloadResult(FALSE, "single_post", FALSE, "none",
                                              0, reason)]

ClassifyTier1_not_found_first(resp) ==
  IF resp.kind = "data" THEN "data"
  ELSE IF resp.notfound \/ resp.has404 THEN "not_found"
  ELSE "api_failed"
\* lines 749-772: what _download_sync makes of the answer of api.get_thread
ClassifyTier1(resp) ==
  CASE resp.kind = "payload" ->
         IF resp.login THEN "api_failed"
         ELSE IF resp.notfound \/ resp.has404 THEN "not_found"
         ELSE "api_failed"
    [] resp.kind = "raise" ->
         IF resp.notfound \/ resp.has404 THEN "not_found" ELSE "api_failed"
    [] OTHER -> "data"

SsrSucceeded_never(s) == FALSE
\* "if ssr_result and ssr_result.success"
SsrSucceeded(s) == s.content_type # "none"

PrefersSsr_any_success(s) == SsrSucceeded(s)
\* line 827: the render replaces the API result only when it is a thread
PrefersSsr(s) == SsrSucceeded(s) /\ s.content_type = "thread" /\ s.posts > 1

\* the call is on one of the two fallback paths (API failed / unparseable data)
InFallback(st) == st.api_failed \/ st.parsed = "none"

\* download(): validate_url, extract_post_id, then _download_sync up to
\* _get_api.  d.api is self._api: once set, _get_api returns it at once; it is
\* assigned before the credentials are applied, so a raising _get_api may
\* leave it set (kept) or not.
DownloadCall ==
  /\ d.pc = "idle"
  /\ \E valid \in BOOLEAN, g \in GetApiOutcomes, kept \in BOOLEAN :
       /\ d.api => g = "ok" /\ kept
       /\ g = "ok" => kept
       /\ g = "import_error" => ~kept
       /\ d' = IF ~valid THEN DFailure(d, "bad_link")
                ELSE CASE g = "ok" -> [d EXCEPT !.pc = "get_thread", !.api = TRUE]
                       [] g = "import_error" -> DFailure(d, "library_missing")
                       [] g = "raise_rate_limit" ->
                            DFailure([d EXCEPT !.api = kept], "rate_limited")
                       [] OTHER -> DFailure([d EXCEPT !.api = kept], "error")
  /\ UNCHANGED exceptD

\* lines 745-772: api.get_thread and the inspection of its answer
GetThread ==
  /\ d.pc = "get_thread"
  /\ \E resp \in Tier1Responses :
       LET st == [d EXCEPT !.t1 = resp, !.tiers = Append(@, "api")]
           c == ClassifyTier1(resp)
       IN d' = CASE c = "not_found" -> DFailure(st, "not_found")
                 [] c = "api_failed" -> [st EXCEPT !.api_failed = TRUE, !.pc = "ssr"]
                 [] OTHER -> [st EXCEPT !.pc = "parse"]
  /\ UNCHANGED exceptD

\* line 801: _parse_post_data
ParsePostData ==
  /\ d.pc = "parse"
  /\ \E p \in ParseOutcomes : d' = [d EXCEPT !.parsed = p, !.pc = "ssr"]
  /\ UNCHANGED exceptD

\* lines 779, 806 and 825: _download_via_googlebot_ssr and what follows it
GooglebotSsr ==
  /\ d.pc = "ssr"
  /\ \E s \in SsrOutcomes :
       LET st == [d EXCEPT !.ssr = s, !.tiers = Append(@, "ssr")]
       IN d' = IF InFallback(d)
               THEN IF SsrSucceeded(s) THEN DSuccess(st, s.content_type, "ssr")
                    ELSE [st EXCEPT !.pc = "scrape"]
               ELSE IF PrefersSsr(s) THEN DSuccess(st, s.content_type, "ssr")
                    ELSE [st EXCEPT !.pc = "replies"]
  /\ UNCHANGED exceptD

\* lines 786 and 811: _download_via_web_scraping
WebScraping ==
  /\ d.pc = "scrape"
  /\ \E sc \in ScrapeOutcomes :
       LET st == [d EXCEPT !.scrape = sc, !.tiers = Append(@, "scrape")]
       IN d' = IF sc = "post" THEN DSuccess(st, "single_post", "scrape")
               ELSE DFailure(st, IF d.api_failed THEN "tiers_exhausted"
                                 ELSE "parse_failed")
  /\ UNCHANGED exceptD

\* lines 837-856: the optional conversation, else the API's single post
FetchReplies ==
  /\ d.pc = "replies"
  /\ \E threads_fetch_replies \in BOOLEAN, c \in ConversationOutcomes :
       LET st == [d EXCEPT !.conversation = IF threads_fetch_replies THEN c ELSE "na"]
       IN d' = IF threads_fetch_replies /\ c = "replies"
               THEN DSuccess(st, "thread_conversation", "api")
               ELSE DSuccess(st, "single_post", "api")
  /\ UNCHANGED exceptD

\* the call has returned; the downloader is ready for the next one
DownloadReturn ==
  /\ d.pc = "done"
  /\ d' = [DIdle EXCEPT !.api = d.api]
  /\ UNCHANGED exceptD

\* --------------------------------- threads_downloader.py: Googlebot SSR tier
\* The markup is a sequence of tokens.  A token is one character of the
\* page, or a run of characters that holds no bracket and no backslash and an
\* even number of double quotes (so that the bracket scanner leaves it in the
\* state in which it entered it):
\*   "K"  the text  "thread_items":          "["  "]"  brackets
\*   "q"  a double quote     "e"  a backslash     "t"  any other character
\*   "0"  a number literal   "}"  the end of an object
\*   "{"  the start of an object; post, code, author and ok tell what
\*        item.get("post"), post.get("code"), user.username and _parse_ssr_post
\*        find in it (code 0: no code field; ok FALSE: _parse_ssr_post catches
\*        an exception and returns None)
\* A run of several characters never follows a backslash in the inputs.
Ch(c) == [ch |-> c, post |-> FALSE, code |-> 0, author |-> "", ok |-> FALSE]
PostObj(c, a, ok) == [ch |-> "{", post |-> TRUE, code |-> c, author |-> a, ok |-> ok]
EmptyObj == Ch("{")
Authors == {"alice", "bob"}

\* one "thread_items": [ {post} ] block
PostBlock(c, a) == <<Ch("K"), Ch("["), PostObj(c, a, TRUE), Ch("}"), Ch("]")>>

\* pieces of markup a page is put together from
Segment(k) ==
  CASE k = "text" -> <<Ch("t")>>
    [] k = "key_no_array" -> <<Ch("K"), Ch("q"), Ch("t"), Ch("q")>>
    [] k = "post1_alice" -> PostBlock(1, "alice")
    [] k = "post1_bob" -> PostBlock(1, "bob")
    [] k = "post2_alice" -> PostBlock(2, "alice")
    [] k = "post2_bob" -> PostBlock(2, "bob")
    [] k = "caption" -> <<Ch("K"), Ch("["), PostObj(3, "alice", TRUE),
                          Ch("q"), Ch("]"), Ch("e"), Ch("q"), Ch("["), Ch("q"),
                          Ch("}"), Ch("]")>>
    [] k = "unbalanced" -> <<Ch("K"), Ch("["), PostObj(1, "alice", TRUE), Ch("}")>>
    [] k = "not_json" -> <<Ch("K"), Ch("["), Ch("t"), Ch("]")>>
    [] k = "no_post" -> <<Ch("K"), Ch("["), EmptyObj, Ch("}"), Ch("]")>>
    [] k = "bad_user1" -> <<Ch("K"), Ch("["), PostObj(1, "", FALSE), Ch("}"), Ch("]")>>
    [] k = "number" -> <<Ch("K"), Ch("["), Ch("0"), Ch("]")>>
    [] k = "nocode_pair" -> PostBlock(0, "alice") \o PostBlock(0, "bob")
    [] OTHER -> <<>>

GoodSegments == {"post1_alice", "post1_bob", "post2_alice", "post2_bob", "caption"}
SegmentKinds ==
  GoodSegments \cup {"text", "key_no_array", "unbalanced", "not_json", "no_post",
                     "bad_user1", "number", "nocode_pair"}

RECURSIVE Flatten(_)
Flatten(segs) ==
  IF segs = <<>> THEN <<>> ELSE Segment(Head(segs)) \o Flatten(Tail(segs))

RECURSIVE ThreadPage(_, _)
\* a page of one-post blocks with codes k, k+1, ... by the given authors
ThreadPage(authors, k) ==
  IF authors = <<>> THEN <<>>
  ELSE PostBlock(k, Head(authors)) \o ThreadPage(Tail(authors), k + 1)

SeqsUpTo(S, n) == UNION {[1..k -> S] : k \in 0..n}

\* the pages requests.get can return: up to MaxBlocks pieces of any kind, or
\* up to MaxDiscovered distinct posts by the authors
Pages ==
  {Flatten(segs) : segs \in SeqsUpTo(SegmentKinds, MaxBlocks)}
  \cup {ThreadPage(au, 1) : au \in SeqsUpTo(Authors, MaxDiscovered)}

\* pattern.finditer(html): the positions where "thread_items": [ matches
AnchorMatches(html) ==
  {i \in 1..(Len(html) - 1) : html[i].ch = "K" /\ html[i + 1].ch = "["}

RECURSIVE ScanString(_, _)
ScanString_no_escape(html, pos) ==
  LET quotes == {p \in pos..Len(html) : html[p].ch = "q"}
  IN IF quotes = {} THEN Len(html) + 1
     ELSE CHOOSE p \in quotes : \A r \in quotes : p <= r
\* lines 513-518: from the position after an opening quote to the closing
\* quote (or past the end), a backslash skipping the character after it
ScanString(html, pos) ==
  IF pos > Len(html) THEN pos
  ELSE IF html[pos].ch = "q" THEN pos
  ELSE IF html[pos].ch = "e" THEN ScanString(html, pos + 2)
  ELSE ScanString(html, pos + 1)

RECURSIVE FindClose(_, _, _)
\* lines 502-519: the bracket-counting loop, from pos with the given depth;
\* it ends on the "]" that brings the depth to 0 or past the end of the page
FindClose(html, pos, depth) ==
  IF pos > Len(html) THEN [pos |-> pos, depth |-> depth]
  ELSE CASE html[pos].ch = "[" -> FindClose(html, pos + 1, depth + 1)
         [] html[pos].ch = "]" ->
              IF depth - 1 = 0 THEN [pos |-> pos, depth |-> 0]
              ELSE FindClose(html, pos + 1, depth - 1)
         [] html[pos].ch = "q" -> FindClose(html, ScanString(html, pos + 1) + 1, depth)
         [] OTHER -> FindClose(html, pos + 1, depth)

RECURSIVE ParseValue(_, _), ParseMembers(_, _, _)
\* json.loads, one value starting at a[i]: the index after it, 0 if a[i..]
\* does not start with a JSON value
ParseValue(a, i) ==
  IF i > Len(a) THEN 0
  ELSE CASE a[i].ch = "0" -> i + 1
         [] a[i].ch = "q" ->
              LET c == ScanString(a, i + 1) IN IF c > Len(a) THEN 0 ELSE c + 1
         [] a[i].ch = "[" -> ParseMembers(a, i + 1, "]")
         [] a[i].ch = "{" -> ParseMembers(a, i + 1, "}")
         [] OTHER -> 0
\* the members of an array or object up to its closer; inside an object a
\* "thread_items": key may precede a value
ParseMembers(a, i, closer) ==
  IF i > Len(a) THEN 0
  ELSE IF a[i].ch = closer THEN i + 1
  ELSE LET j == IF closer = "}" /\ a[i].ch = "K" THEN i + 1 ELSE i
           n == ParseValue(a, j)
       IN IF n = 0 THEN 0 ELSE ParseMembers(a, n, closer)

\* json.loads(array_str) succeeds
IsJson(a) == ParseValue(a, 1) = Len(a) + 1

RECURSIVE ItemsFrom(_, _)
\* the positions in a at which the items of the array a start
ItemsFrom(a, i) ==
  IF i >= Len(a) THEN <<>> ELSE <<i>> \o ItemsFrom(a, ParseValue(a, i))

\* ------------------------------------- downloaders: the link check at entry
\* A link is the text handed to download(), in the pieces the URL patterns
\* tell apart: text before the scheme, the scheme, an optional "www.", the
\* host, the first path segment ("@post" stands for /@<user>/post/), the
\* user name, the text where the post id is expected, and the remainder.
LinkHosts == {"instagram.com", "m.instagram.com", "threads.net", "threads.com",
              "youtube.com"}
LinkPaths == {"reel", "p", "reels", "tv", "t", "@post"}
LinkIds == {"", "ABC123xyz", "%41", "AB%41"}
Links ==
  [lead : {"", " "}, scheme : {"https", "http", "ftp"}, www : BOOLEAN,
   host : LinkHosts, path : LinkPaths, user : {"", "alice"}, id : LinkIds,
   tail : {"", "/?igsh=1"}]

\* the longest prefix of a text made of the characters [A-Za-z0-9_-]
IdPrefix(text) ==
  CASE text = "ABC123xyz" -> "ABC123xyz"
    [] text = "AB%41" -> "AB"
    [] OTHER -> ""

\* a URL pattern: the hosts and the path segment it accepts
Pattern(hosts, path) == [hosts |-> hosts, path |-> path]
\* InstagramDownloader.INSTAGRAM_URL_PATTERNS
INSTAGRAM_URL_PATTERNS ==
  <<Pattern({"instagram.com"}, "reel"), Pattern({"instagram.com"}, "p"),
    Pattern({"instagram.com"}, "reels")>>
\* ThreadsDownloader.THREADS_URL_PATTERNS
THREADS_URL_PATTERNS ==
  <<Pattern({"threads.net", "threads.com"}, "@post"),
    Pattern({"threads.net", "threads.com"}, "t")>>
\* the two patterns written out in ThreadsDownloader.extract_post_id
THREADS_ID_PATTERNS ==
  <<Pattern({"threads.net", "threads.com"}, "@post"),
    Pattern({"threads.net", "threads.com"}, "t")>>

\* re.match(pattern, url): the post id group, "none" when there is no match.
\* The match starts at the first character and need not reach the last.
re_match(pattern, url) ==
  IF /\ url.lead = ""
     /\ url.scheme \in {"https", "http"}
     /\ url.host \in pattern.hosts
     /\ url.path = pattern.path
     /\ pattern.path = "@post" => url.user # ""
     /\ IdPrefix(url.id) # ""
    THEN IdPrefix(url.id)
  ELSE "none"

\* the group of the first pattern of a list that matches, else "none"
FirstMatch(patterns, url) ==
  LET hits == {i \in DOMAIN patterns : re_match(patterns[i], url) # "none"}
  IN IF hits = {} THEN "none"
     ELSE re_match(patterns[CHOOSE i \in hits : \A j \in hits : i <= j], url)

\* InstagramDownloader.validate_url
instagram_validate_url(url) ==
  \E i \in DOMAIN INSTAGRAM_URL_PATTERNS : re_match(INSTAGRAM_URL_PATTERNS[i], url) # "none"
instagram_extract_post_id_reel_only(url) ==
  FirstMatch(<<INSTAGRAM_URL_PATTERNS[1], INSTAGRAM_URL_PATTERNS[3]>>, url)
\* InstagramDownloader.extract_post_id
instagram_extract_post_id(url) == FirstMatch(INSTAGRAM_URL_PATTERNS, url)
\* ThreadsDownloader.validate_url
threads_validate_url(url) ==
  \E i \in DOMAIN THREADS_URL_PATTERNS : re_match(THREADS_URL_PATTERNS[i], url) # "none"
\* ThreadsDownloader.extract_post_id
threads_extract_post_id(url) == FirstMatch(THREADS_ID_PATTERNS, url)

\* what the remote fetch of a download comes to
FetchOutcomes == {"ok", "fail", "raise"}
\* a DownloadResult / PostDownloadResult / ThreadsDownloadResult: success,
\* the error message and the remote fetches the call made
DlResult(success, error, fetches) ==
  [success |-> success, error |-> error, fetches |-> fetches]
Fetched(by, f) ==
  CASE f = "ok" -> DlResult(TRUE, "none", <<by>>)
    [] f = "fail" -> DlResult(FALSE, "download_failed", <<by>>)
    [] OTHER -> DlResult(FALSE, "download_raised", <<by>>)

\* InstagramDownloader.download
instagram_download(url, f) ==
  IF ~instagram_validate_url(url) THEN DlResult(FALSE, "unsupported_link", <<>>)
  ELSE Fetched("yt_dlp", f)
\* InstagramDownloader.download_post
instagram_download_post(url, f) ==
  IF ~instagram_validate_url(url) THEN DlResult(FALSE, "unsupported_link", <<>>)
  ELSE IF instagram_extract_post_id(url) = "none"
    THEN DlResult(FALSE, "no_post_id", <<>>)
  ELSE Fetched("instaloader", f)
\* ThreadsDownloader.download
threads_download(url, f) ==
  IF ~threads_validate_url(url) THEN DlResult(FALSE, "unsupported_link", <<>>)
  ELSE IF threads_extract_post_id(url) = "none"
    THEN DlResult(FALSE, "no_post_id", <<>>)
  ELSE Fetched("tiers", f)

DlIdle ==
  [pc |-> "idle", entry |-> "none", url |-> "none", valid |-> FALSE,
   post_id |-> "none", result |-> DlResult(FALSE, "none", <<>>)]

\* one call of InstagramDownloader.download
InstagramDownload ==
  /\ linkCall.pc = "idle"
  /\ \E url \in Links, f \in FetchOutcomes :
       linkCall' = [pc |-> "done", entry |-> "download", url |-> url,
              valid |-> instagram_validate_url(url),
              post_id |-> instagram_extract_post_id(url),
              result |-> instagram_download(url, f)]
  /\ UNCHANGED exceptDl

\* one call of InstagramDownloader.download_post
InstagramDownloadPost ==
  /\ linkCall.pc = "idle"
  /\ \E url \in Links, f \in FetchOutcomes :
       linkCall' = [pc |-> "done", entry |-> "download_post", url |-> url,
              valid |-> instagram_validate_url(url),
              post_id |-> instagram_extract_post_id(url),
              result |-> instagram_download_post(url, f)]
  /\ UNCHANGED exceptDl

\* one call of ThreadsDownloader.download
ThreadsDownload ==
  /\ linkCall.pc = "idle"
  /\ \E url \in Links, f \in FetchOutcomes :
       linkCall' = [pc |-> "done", entry |-> "threads_download", url |-> url,
              valid |-> threads_validate_url(url),
              post_id |-> threads_extract_post_id(url),
              result |-> threads_download(url, f)]
  /\ UNCHANGED exceptDl

\* the call has returned
DlReturn ==
  /\ linkCall.pc = "done"
  /\ linkCall' = DlIdle
  /\ UNCHANGED exceptDl

\* ------------------------------------------------------------- scheduler
RECURSIVE SortedSeq(_)
\* the ids of a result set in primary-key order
SortedSeq(S) ==
  IF S = {} THEN <<>>
  ELSE LET m == CHOOSE x \in S : \A y \in S : x <= y
       IN <<m>> \o SortedSeq(S \ {m})

SweepSelects_any_status(t) == t.retry_count < max_retry_count
\* the WHERE clause of retry_failed_tasks
SweepSelects(t) == t.status = "pending" /\ t.retry_count < max_retry_count

\* the query of retry_failed_tasks
SweepQuery(ts) == SortedSeq({i \in DOMAIN ts : SweepSelects(ts[i])})

ShouldAbandon_after_cap(t) == t.retry_count > max_retry_count
\* the test both failure branches of _retry_single_task make
ShouldAbandon(t) == t.retry_count >= max_retry_count

SwIdle ==
  [pc |-> "idle", queue |-> <<>>, cur |-> 0, result |-> "none",
   snapshot |-> <<>>, attempted |-> <<>>, calls |-> <<>>, notes |-> <<>>]

\* RetryScheduler._retry_full_process: the task's error fields, the calls
\* made, the notifications sent and how it returned
retry_full_process(t, o) ==
  LET c1 == <<"download">>
      c2 == c1 \o <<"transcribe">>
      c3 == c2 \o <<"summarize">>
      c4 == c3 \o <<"publish">>
      fin == <<"cleanup_audio">>
      failed(et, msg, calls, notes) ==
        [task |-> [t EXCEPT !.error_type = et, !.error_message = msg],
         calls |-> calls, notes |-> notes, result |-> "failed"]
      raised(calls) == [task |-> t, calls |-> calls, notes |-> <<>>, result |-> "raised"]
  IN IF ~validate_url(t.url) THEN failed("download", "bad_link", <<>>, <<>>)
     ELSE IF o.dl # "ok" THEN failed("download", o.dl, c1, <<>>)
     ELSE IF o.tr = "raise" THEN raised(c2 \o fin)
     ELSE IF o.tr = "fail" THEN failed("transcribe", "transcribe_error", c2 \o fin, <<>>)
     ELSE IF o.note = "raise" THEN raised(c3 \o fin)
     ELSE IF o.note = "fail" THEN failed("summarize", "note_error", c3 \o fin, <<>>)
     ELSE IF o.roam = "raise" THEN raised(c4 \o fin)
     ELSE IF o.roam = "fail"
       THEN failed("sync", "sync_error", c4 \o fin,
                   <<[to |-> t.chat, kind |-> "retry_done_unsaved", detail |-> "summary"]>>)
     ELSE [task |-> t, calls |-> c4 \o fin,
           notes |-> <<[to |-> t.chat, kind |-> "retry_done", detail |-> "summary"]>>,
           result |-> "success"]

\* retry_failed_tasks: the interval trigger fires, the query runs
SweepBegin ==
  /\ sw.pc = "idle"
  /\ clock <= MaxSweeps
  /\ clock' = clock + 1
  /\ sw' = [SwIdle EXCEPT !.pc = "loop", !.queue = SweepQuery(tasks),
                          !.snapshot = tasks]
  /\ lastRun' = NoRun
  /\ UNCHANGED <<tasks, processed, seenIds, accepted, inflight, completedOK, svcVars, links>>

\* retry_failed_tasks fired by the interval trigger after the last instant the
\* model tells apart: the trigger goes on firing for as long as the process
\* runs, and later instants are identified with that one
SweepBeginAgain ==
  /\ sw.pc = "idle"
  /\ clock > MaxSweeps
  /\ sw' = [SwIdle EXCEPT !.pc = "loop", !.queue = SweepQuery(tasks),
                          !.snapshot = tasks]
  /\ lastRun' = NoRun
  /\ UNCHANGED <<tasks, processed, clock, seenIds, accepted, inflight, completedOK, svcVars, links>>

\* RetryScheduler._retry_from_download
retry_from_download(t, o) == retry_full_process(t, o)
\* RetryScheduler._retry_sync_only: the summary of the failed run was not
\* kept, so it processes the link again
retry_sync_only(t, o) == retry_full_process(t, o)

\* _retry_single_task, lines 93-108: the branch on the recorded error type
retry_by_error_type(t, o) ==
  CASE t.error_type = "download" -> retry_full_process(t, o)
    [] t.error_type = "transcribe" -> retry_from_download(t, o)
    [] t.error_type = "summarize" -> retry_full_process(t, o)
    [] t.error_type = "sync" -> retry_sync_only(t, o)
    [] OTHER -> retry_full_process(t, o)

\* _retry_single_task's last lines (110-125): the task marked by the
\* attempt's result, and the abandonment notice
retry_mark(t, result, now) ==
  IF result = "success"
    THEN [task |-> mark_success(t, now), notes |-> <<>>]
  ELSE IF ShouldAbandon(t)
    THEN [task |-> mark_abandoned(t, now),
          notes |-> <<[to |-> t.chat, kind |-> "abandoned", detail |-> t.error_message]>>]
  ELSE [task |-> t, notes |-> <<>>]

\* RetryScheduler._retry_single_task for the next task of the sweep:
\* increment_retry, then the pipeline (every error type re-runs all of it),
\* then the mark
RetryTask ==
  /\ sw.pc = "loop"
  /\ sw.queue # <<>>
  /\ \E o \in RetryOutcomes :
       LET id == Head(sw.queue)
           t1 == increment_retry(tasks[id], clock)
           res == retry_by_error_type(t1, o)
           fin == retry_mark(res.task, res.result, clock)
       IN /\ tasks' = [tasks EXCEPT ![id] = fin.task]
          /\ sw' = [sw EXCEPT !.queue = Tail(@), !.cur = id,
                              !.attempted = Append(@, id),
                              !.result = res.result,
                              !.calls = <<"increment_retry">> \o res.calls,
                              !.notes = res.notes \o fin.notes]
          /\ completedOK' = IF res.result = "success"
                            THEN completedOK \cup {t1.url}
                            ELSE completedOK
  /\ lastRun' = NoRun
  /\ UNCHANGED <<processed, clock, seenIds, accepted, inflight, svcVars, links>>

\* retry_failed_tasks, line 83: the loop is over, session.commit()
SweepCommit ==
  /\ sw.pc = "loop"
  /\ sw.queue = <<>>
  /\ sw' = SwIdle
  /\ lastRun' = NoRun
  /\ UNCHANGED <<tasks, processed, clock, seenIds, accepted, inflight, completedOK, svcVars, links>>

\* --------------------------------------------------------- specification
\* ------------------------- _download_via_googlebot_ssr, after requests.get
SsrOut(ctype, posts) == [content_type |-> ctype, posts |-> posts]

SsrIdle ==
  [pc |-> "idle", url_user |-> "none", html |-> <<>>, matches |-> <<>>,
   all_posts |-> <<>>,
   seen_codes |-> {}, log |-> <<>>, result |-> SsrOut("na", <<>>)]

\* extract_username(url): the handle of a /@handle/post/ link ("none": the
\* link has no handle); the links of the inputs name alice or nobody
UrlHandles == {"alice", "none"}
\* fallback_username = self.extract_username(url) or "unknown"
fallback_username(url_user) == IF url_user = "none" THEN "unknown" ELSE url_user

\* the ThreadPost _parse_ssr_post builds from the object at page position at
ThreadPost(tok, at, fallback) ==
  [id |-> tok.code,
   author_username |-> IF tok.author = "" THEN fallback ELSE tok.author,
   at |-> at]

RECURSIVE ProcessItems(_, _, _, _)
\* lines 531-543 over the items (positions in a) of one parsed array; off is
\* the page position before a[1].  An item that is no object has no .get:
\* the AttributeError leaves the loop and the function.
ProcessItems(a, items, off, acc) ==
  IF items = <<>> \/ acc.raised THEN acc
  ELSE LET tok == a[Head(items)]
           rest == Tail(items)
       IN IF tok.ch # "{" THEN [acc EXCEPT !.raised = TRUE]
          ELSE IF ~tok.post THEN ProcessItems(a, rest, off, acc)
          ELSE IF tok.code \in acc.seen_codes THEN ProcessItems(a, rest, off, acc)
          ELSE ProcessItems(a, rest, off,
                 [acc EXCEPT !.seen_codes = @ \cup {tok.code},
                             !.all_posts = IF tok.ok
                                           THEN Append(@, ThreadPost(tok, off + Head(items),
                                                                    acc.fallback))
                                           ELSE @])

AuthorPosts_everyone(all) == all
\* lines 433-439: the posts of the author of the first discovered post
AuthorPosts(all) ==
  SelectSeq(all, LAMBDA p : p.author_username = all[1].author_username)

BuildResult_pair_is_single(author_posts) ==
  IF Len(author_posts) <= 2
  THEN SsrOut("single_post", <<author_posts[1]>>)
  ELSE SsrOut("thread", author_posts)
\* lines 446-459: one author post is a single post, several are a thread
BuildResult(author_posts) ==
  IF Len(author_posts) = 1
  THEN SsrOut("single_post", <<author_posts[1]>>)
  ELSE SsrOut("thread", author_posts)

\* lines 418-424: the page has arrived; without the key the call returns None
SsrFetch ==
  /\ ssr.pc = "idle"
  /\ \E html \in Pages, user \in UrlHandles :
       ssr' = IF \A i \in DOMAIN html : html[i].ch # "K"
              THEN [ssr EXCEPT !.pc = "done", !.url_user = user, !.html = html,
                               !.result = SsrOut("none", <<>>)]
              ELSE [ssr EXCEPT !.pc = "scan", !.url_user = user, !.html = html,
                               !.matches = SortedSeq(AnchorMatches(html))]
  /\ UNCHANGED exceptSsr

\* lines 496-543: one iteration of the finditer loop
SsrScanOccurrence ==
  /\ ssr.pc = "scan"
  /\ ssr.matches # <<>>
  /\ LET bracket_start == Head(ssr.matches) + 1
         fc == FindClose(ssr.html, bracket_start, 0)
         array_str == SubSeq(ssr.html, bracket_start, fc.pos)
         r == ProcessItems(array_str, ItemsFrom(array_str, 2), bracket_start - 1,
                           [all_posts |-> ssr.all_posts, seen_codes |-> ssr.seen_codes,
                            fallback |-> fallback_username(ssr.url_user),
                            raised |-> FALSE])
         entry(o) == [at |-> bracket_start, close |-> fc.pos, outcome |-> o]
         next == [ssr EXCEPT !.matches = Tail(@)]
     IN ssr' = IF fc.depth # 0
                 THEN [next EXCEPT !.log = Append(@, entry("unbalanced"))]
               ELSE IF ~IsJson(array_str)
                 THEN [next EXCEPT !.log = Append(@, entry("not_json"))]
               ELSE IF r.raised
                 THEN [next EXCEPT !.log = Append(@, entry("raised")),
                                   !.pc = "done", !.result = SsrOut("none", <<>>)]
               ELSE [next EXCEPT !.log = Append(@, entry("parsed")),
                                 !.all_posts = r.all_posts,
                                 !.seen_codes = r.seen_codes]
  /\ UNCHANGED exceptSsr

\* lines 428-459: from the discovered posts to the result
SsrBuild ==
  /\ ssr.pc = "scan"
  /\ ssr.matches = <<>>
  /\ ssr' = [ssr EXCEPT !.pc = "done",
                        !.result = IF ssr.all_posts = <<>> THEN SsrOut("none", <<>>)
                                   ELSE BuildResult(AuthorPosts(ssr.all_posts))]
  /\ UNCHANGED exceptSsr

\* the call has returned
SsrReturn ==
  /\ ssr.pc = "done"
  /\ ssr' = SsrIdle
  /\ UNCHANGED exceptSsr

(***************************************************************************)
(* VideoVisualAnalyzer.analyze_images / analyze                            *)
(* (src/app/services/visual_analyzer.py).  One call is a step machine over *)
(* `ana`: every item becomes a coroutine that waits for the semaphore,     *)
(* runs the synchronous analysis in the executor and releases the          *)
(* semaphore; asyncio.gather collects the (index, description) pairs and   *)
(* the caller sorts them by index.                                         *)
(***************************************************************************)
PARALLEL_ANALYSIS == 3
\* what the vision model can be asked about: two images it describes and one
\* on which ollama.chat raises
ItemKinds == {"p", "q", "bad"}
Placeholder == "[cannot analyze]"
Describe(item) == IF item = "p" THEN "about p" ELSE "about q"
FrameDescription(ts, text) == [timestamp |-> ts, description |-> text]
NoDescription == FrameDescription(-1, "none")

_analyze_image_sync_no_placeholder(item, idx) ==
  FrameDescription(idx, Describe(item))
\* _analyze_image_sync / _analyze_frame_sync: idx is the 0-based index; any
\* exception of the model call is turned into the placeholder description
_analyze_image_sync(item, idx) ==
  IF item = "bad" THEN FrameDescription(idx, Placeholder)
                  ELSE FrameDescription(idx, Describe(item))

AcquireReady_unlimited(sem) == TRUE
\* asyncio.Semaphore: `async with semaphore` goes on when the value is positive
AcquireReady(sem) == sem > 0

\* asyncio.gather: the pairs returned by the coroutines, in the order the
\* coroutines were passed, whatever the order they finished in
Gather(descs) == [i \in DOMAIN descs |-> [idx |-> i - 1, desc |-> descs[i]]]

OrderedDescriptions_reversed(results) ==
  [k \in DOMAIN results |->
     (CHOOSE r \in Range(results) : r.idx = Len(results) - k).desc]
\* [desc for _, desc in sorted(results, key=lambda x: x[0])]
OrderedDescriptions(results) ==
  [k \in DOMAIN results |->
     (CHOOSE r \in Range(results) :
        Cardinality({q \in Range(results) : q.idx < r.idx}) = k - 1).desc]

VisualAnalysisResult(ok, fds, err) ==
  [success |-> ok, frame_descriptions |-> fds, error_message |-> err]
NoAnalysis == VisualAnalysisResult(FALSE, <<>>, "none")

AnaIdle ==
  [pc |-> "idle", items |-> <<>>, st |-> <<>>,
   sem |-> PARALLEL_ANALYSIS, descs |-> <<>>, first |-> 0, out |-> NoAnalysis]

AnaActive == {i \in DOMAIN ana.st : ana.st[i] = "active"}

\* analyze_images(image_paths) / analyze(video_path): an empty list of images
\* or of extracted frames is refused; otherwise one coroutine per item is
\* created and a fresh semaphore guards them
AnaCall ==
  /\ ana.pc = "idle"
  /\ \E items \in SeqsUpTo(ItemKinds, MaxItems) :
       ana' = IF items = <<>>
              THEN [AnaIdle EXCEPT !.pc = "done",
                      !.out = VisualAnalysisResult(FALSE, <<>>, "no images")]
              ELSE [AnaIdle EXCEPT !.pc = "running",
                      !.items = items,
                      !.st = [i \in DOMAIN items |-> "waiting"],
                      !.descs = [i \in DOMAIN items |-> NoDescription]]
  /\ UNCHANGED exceptAna

\* analyze_with_limit(i, path) enters `async with semaphore` and hands the
\* synchronous analysis to the executor
AnaStart ==
  /\ ana.pc = "running"
  /\ \E i \in DOMAIN ana.st :
       /\ ana.st[i] = "waiting"
       /\ AcquireReady(ana.sem)
       /\ ana' = [ana EXCEPT !.st[i] = "active", !.sem = @ - 1]
  /\ UNCHANGED exceptAna

\* the executor call of item i returns; the coroutine leaves the `async with`
\* block, which releases the semaphore, and returns (i, desc)
AnaFinish ==
  /\ ana.pc = "running"
  /\ \E i \in DOMAIN ana.st :
       /\ ana.st[i] = "active"
       /\ ana' = [ana EXCEPT !.st[i] = "finished", !.sem = @ + 1,
                    !.descs[i] = _analyze_image_sync(ana.items[i], i - 1),
                    !.first = IF @ = 0 THEN i ELSE @]
  /\ UNCHANGED exceptAna

\* `results = await asyncio.gather(*tasks)` resumes once every coroutine has
\* returned; the descriptions are put in index order and returned
AnaGather ==
  /\ ana.pc = "running"
  /\ \A i \in DOMAIN ana.st : ana.st[i] = "finished"
  /\ ana' = [ana EXCEPT !.pc = "done",
               !.out = VisualAnalysisResult(TRUE,
                         OrderedDescriptions(Gather(ana.descs)), "none")]
  /\ UNCHANGED exceptAna

AnaReturn ==
  /\ ana.pc = "done"
  /\ ana' = AnaIdle
  /\ UNCHANGED exceptAna

(***************************************************************************)
(* ThreadsDownloader.download_media and its two synchronous downloaders    *)
(* (src/app/services/threads_downloader.py).  One call is a step machine   *)
(* over `acq`: the media are taken in list order, one attempt of the       *)
(* current one per step; a downloaded video is probed for an audio stream  *)
(* and, when one is reported, ffmpeg is asked to extract it.  A path is    *)
(* identified by the position of its medium in the list (the file names    *)
(* carry a fresh uuid).                                                    *)
(***************************************************************************)
retry == 2
MediaTypes == {"image", "video"}
\* what ffprobe can do: list an audio stream, list none, or fail to run
ProbeOutcomes == {"audio", "silent", "probe_error"}
\* what ffmpeg can do: write the mp3, write nothing, raise before it opened
\* the mp3, or be killed at the timeout after it opened the mp3
ExtractOutcomes == {"written", "nothing", "raised", "killed"}

range(n) == 0..(n - 1)
AttemptRange_one_more(r) == range(r + 2)
\* for attempt in range(retry + 1)
AttemptRange(r) == range(r + 1)

_has_audio_track_assumed(probe) == TRUE
\* _has_audio_track: "audio" in the ffprobe output; True when ffprobe failed
_has_audio_track(probe) == probe # "silent"

MediaSuccess_always(images, videos) == TRUE
\* success = len(image_paths) > 0 or len(video_paths) > 0
MediaSuccess(images, videos) == Len(images) > 0 \/ Len(videos) > 0

ThreadsMediaDownloadResult(ok, images, videos, audios, err) ==
  [success |-> ok, image_paths |-> images, video_paths |-> videos,
   audio_paths |-> audios, error_message |-> err]
NoDownload == ThreadsMediaDownloadResult(FALSE, <<>>, <<>>, <<>>, "none")

AcqIdle ==
  [pc |-> "idle", media_list |-> <<>>, i |-> 0, attempt |-> 0,
   attempts |-> <<>>, won |-> <<>>, probe |-> <<>>, extracted |-> {},
   files |-> {},
   image_paths |-> <<>>, video_paths |-> <<>>, audio_paths |-> <<>>,
   out |-> NoDownload]

\* the loop of download_media goes on to the next medium, or builds the
\* result after the last one
AcqAdvance(a) ==
  IF a.i < Len(a.media_list)
  THEN [a EXCEPT !.pc = "attempt", !.i = @ + 1, !.attempt = 0]
  ELSE LET ok == MediaSuccess(a.image_paths, a.video_paths)
       IN [a EXCEPT !.pc = "done", !.i = @ + 1,
             !.out = ThreadsMediaDownloadResult(ok, a.image_paths,
                       a.video_paths, a.audio_paths,
                       IF ~ok THEN "all_failed" ELSE "none")]

\* download_media(media_list): an empty list succeeds at once
AcqCall ==
  /\ acq.pc = "idle"
  /\ \E ml \in SeqsUpTo(MediaTypes, MaxRefs) :
       acq' = IF ml = <<>>
              THEN [AcqIdle EXCEPT !.pc = "done",
                      !.out = ThreadsMediaDownloadResult(TRUE, <<>>, <<>>,
                                                         <<>>, "none")]
              ELSE [AcqIdle EXCEPT !.pc = "attempt", !.media_list = ml,
                      !.i = 1,
                      !.attempts = [k \in DOMAIN ml |-> 0],
                      !.won = [k \in DOMAIN ml |-> 0],
                      !.probe = [k \in DOMAIN ml |-> "none"]]
  /\ UNCHANGED exceptAcq

\* one pass of the retry loop in which requests.get raises, or the stream
\* breaks after open(path, "wb") created the file: the loop goes to the next
\* attempt, or falls out and returns None
AcqAttemptFails ==
  /\ acq.pc = "attempt"
  /\ acq.attempt \in AttemptRange(retry)
  /\ \E opened \in BOOLEAN :
       LET a == [acq EXCEPT !.attempts[acq.i] = @ + 1,
                            !.files = IF opened
                                      THEN @ \cup {<<acq.media_list[acq.i], acq.i>>}
                                      ELSE @]
       IN acq' = IF acq.attempt + 1 \in AttemptRange(retry)
                 THEN [a EXCEPT !.attempt = @ + 1]
                 ELSE AcqAdvance(a)
  /\ UNCHANGED exceptAcq

\* one pass of the retry loop in which the file is downloaded: an image is
\* returned at once, a video goes on to the audio probe
AcqAttemptSucceeds ==
  /\ acq.pc = "attempt"
  /\ acq.attempt \in AttemptRange(retry)
  /\ LET a == [acq EXCEPT !.attempts[acq.i] = @ + 1,
                          !.won[acq.i] = acq.attempt + 1,
                          !.files = @ \cup {<<acq.media_list[acq.i], acq.i>>}]
     IN acq' = IF acq.media_list[acq.i] = "image"
               THEN AcqAdvance([a EXCEPT !.image_paths = Append(@, acq.i)])
               ELSE [a EXCEPT !.pc = "probe"]
  /\ UNCHANGED exceptAcq

\* _has_audio_track(video_path): without an audio track the video is returned
\* alone
AcqProbe ==
  /\ acq.pc = "probe"
  /\ \E p \in ProbeOutcomes :
       LET a == [acq EXCEPT !.probe[acq.i] = p]
       IN acq' = IF _has_audio_track(p)
                 THEN [a EXCEPT !.pc = "extract"]
                 ELSE AcqAdvance([a EXCEPT !.video_paths = Append(@, acq.i)])
  /\ UNCHANGED exceptAcq

\* subprocess.run(["ffmpeg", ...]): the audio path is returned when the file
\* exists afterwards; an exception is logged and the video returned alone
AcqExtract ==
  /\ acq.pc = "extract"
  /\ \E x \in ExtractOutcomes :
       LET a == [acq EXCEPT !.extracted = @ \cup {acq.i},
                            !.video_paths = Append(@, acq.i),
                            !.files = IF x \in {"written", "killed"}
                                      THEN @ \cup {<<"audio", acq.i>>}
                                      ELSE @]
       IN acq' = IF x = "written"
                 THEN AcqAdvance([a EXCEPT !.audio_paths = Append(@, acq.i)])
                 ELSE AcqAdvance(a)
  /\ UNCHANGED exceptAcq

AcqReturn ==
  /\ acq.pc = "done"
  /\ acq' = AcqIdle
  /\ UNCHANGED exceptAcq

Init ==
  /\ tasks = <<>>
  /\ processed = <<>>
  /\ clock = 1
  /\ seenIds = {}
  /\ links \in LinkPools
  /\ inflight = {}
  /\ lastRun = NoRun
  /\ sw = SwIdle
  /\ completedOK = {}
  /\ accepted = {}
  /\ d = DIdle
  /\ ssr = SsrIdle
  /\ ana = AnaIdle
  /\ acq = AcqIdle
  /\ linkCall = DlIdle

Next ==
  \/ Submit
  \/ Redeliver
  \/ HandleReel
  \/ HandlePost
  \/ HandleThreads
  \/ SweepBegin
  \/ RetryTask
  \/ SweepCommit

Spec == Init /\ [][Next]_vars

\* the Threads downloader on its own
NextDispatch ==
  \/ DownloadCall
  \/ GetThread
  \/ ParsePostData
  \/ GooglebotSsr
  \/ WebScraping
  \/ FetchReplies
  \/ DownloadReturn

SpecDispatch == Init /\ [][NextDispatch]_vars

\* the crawler-facing render tier on its own
NextSsr ==
  \/ SsrFetch
  \/ SsrScanOccurrence
  \/ SsrBuild
  \/ SsrReturn

SpecSsr == Init /\ [][NextSsr]_vars

NextAna ==
  \/ AnaCall
  \/ AnaStart
  \/ AnaFinish
  \/ AnaGather
  \/ AnaReturn

SpecAna == Init /\ [][NextAna]_vars

\* every executor call returns and the event loop runs every coroutine that
\* can go on
SpecAnaFair ==
  /\ Init
  /\ [][NextAna]_vars
  /\ WF_vars(AnaStart)
  /\ WF_vars(AnaFinish)
  /\ WF_vars(AnaGather)

NextAcq ==
  \/ AcqCall
  \/ AcqAttemptFails
  \/ AcqAttemptSucceeds
  \/ AcqProbe
  \/ AcqExtract
  \/ AcqReturn

SpecAcq == Init /\ [][NextAcq]_vars

\* the rows request-path failures leave in failed_tasks: pending, never retried
QueuedSeeds ==
  {NewFailedTask(ReelUrl, "chatA", "download", "download_error", 0),
   NewFailedTask(PostUrl, "chatB", "transcribe", "image_analysis_failed", 0),
   NewFailedTask(ReelUrl, "chatA", "sync", "sync_error", 0),
   NewFailedTask(ThreadsUrl, "chatB", "summarize", "note_error", 0)}

\* the scheduler on its own, started with a queue of failed tasks
InitQueue ==
  /\ tasks \in SeqsUpTo(QueuedSeeds, MaxQueued)
  /\ processed = <<>>
  /\ clock = 1
  /\ seenIds = {}
  /\ links \in LinkPools
  /\ inflight = {}
  /\ lastRun = NoRun
  /\ sw = SwIdle
  /\ completedOK = {}
  /\ accepted = {}
  /\ d = DIdle
  /\ ssr = SsrIdle
  /\ ana = AnaIdle
  /\ acq = AcqIdle
  /\ linkCall = DlIdle

NextSweep ==
  \/ SweepBegin
  \/ SweepBeginAgain
  \/ RetryTask
  \/ SweepCommit

\* the interval trigger fires again and again, and a sweep that has begun
\* runs its loop to the end
SpecSweepFair ==
  /\ InitQueue
  /\ [][NextSweep]_vars
  /\ WF_vars(SweepBegin \/ SweepBeginAgain)
  /\ WF_vars(RetryTask)
  /\ WF_vars(SweepCommit)

\* the handler after it has handled the messages 1..MsgIdCap+1 except the
\* late ones: its filter is one id below the cap (the history starts with
\* this behaviour)
InitFilter ==
  /\ tasks = <<>>
  /\ processed = <<>>
  /\ clock = 1
  /\ seenIds = (1..(MsgIdCap + 1)) \ LateIds
  /\ links \in LinkPools
  /\ inflight = {}
  /\ lastRun = NoRun
  /\ sw = SwIdle
  /\ completedOK = {}
  /\ accepted = {}
  /\ d = DIdle
  /\ ssr = SsrIdle
  /\ ana = AnaIdle
  /\ acq = AcqIdle
  /\ linkCall = DlIdle

NextFilter ==
  \/ HandleText
  \/ Redeliver

SpecFilter == InitFilter /\ [][NextFilter]_vars

NextDl ==
  \/ InstagramDownload
  \/ InstagramDownloadPost
  \/ ThreadsDownload
  \/ DlReturn

SpecDl == Init /\ [][NextDl]_vars

NextNotify ==
  \/ HandleMessage
  \/ Redeliver

SpecNotify == Init /\ [][NextNotify]_vars

\* ================================================================ claims
IsPipelineRun == lastRun.handler \in {"reel", "post", "threads"}
RowsOf(url) == {i \in DOMAIN processed : processed[i].url = url}
\* the retry count a swept task had when the sweep's query ran
CountAtSelection(i) == sw.snapshot[i].retry_count
AttemptJustFailed == sw.pc = "loop" /\ sw.cur # 0 /\ sw.result \in {"failed", "raised"}

\* C1: a swept task whose retry attempt returned failure or raised is
\* Abandoned exactly when its incremented retry count has reached
\* max_retry_count, and is still Pending otherwise.
C1_FailedRetryAbandonsAtCap ==
  AttemptJustFailed =>
    /\ tasks[sw.cur].status \in {"pending", "abandoned"}
    /\ tasks[sw.cur].status = "abandoned"
         <=> CountAtSelection(sw.cur) + 1 >= max_retry_count

C1_Witness ==
  /\ AttemptJustFailed
  /\ CountAtSelection(sw.cur) = max_retry_count - 1
  /\ tasks[sw.cur].status = "abandoned"

\* C2: a task whose attempt succeeds is Succeeded after that attempt; a
\* Succeeded or Abandoned task is never put on a sweep's queue nor attempted
\* again, none of its fields changes, and no row of failed_tasks disappears.
C2_TerminalIsAbsorbing ==
  [][ /\ \A i \in DOMAIN tasks :
           /\ i \in DOMAIN tasks'
           /\ tasks'[i].url = tasks[i].url
           /\ TaskIsTerminal(tasks[i]) =>
                /\ tasks'[i] = tasks[i]
                /\ i \notin Range(sw'.queue)
                /\ Len(sw'.attempted) > Len(sw.attempted) => sw'.cur # i
      /\ (Len(sw'.attempted) > Len(sw.attempted) /\ sw'.result = "success")
           => tasks'[sw'.cur].status = "success"
    ]_vars

C2_Witness ==
  \E i \in DOMAIN tasks :
    /\ tasks[i].status = "success"
    /\ tasks[i].last_retry_at < clock
    /\ sw.pc = "loop"
    /\ Len(tasks) > Len(sw.snapshot)

\* C3: a sweep attempts exactly the tasks that were Pending with
\* retry_count < max_retry_count when its query ran, each once; an attempted
\* task's retry_count is one more than at the query and its last_retry_at is
\* set before the pipeline is invoked; no retry_count exceeds max_retry_count.
C3_SweepAttemptsDueTasksOnce ==
  /\ \A i \in DOMAIN tasks : tasks[i].retry_count <= max_retry_count
  /\ sw.pc = "loop" =>
       LET due == {i \in DOMAIN sw.snapshot :
                     /\ sw.snapshot[i].status = "pending"
                     /\ sw.snapshot[i].retry_count < max_retry_count}
           done == Range(sw.attempted)
           todo == Range(sw.queue)
       IN /\ done \cup todo = due
          /\ done \cap todo = {}
          /\ Len(sw.attempted) = Cardinality(done)
          /\ Len(sw.queue) = Cardinality(todo)
          /\ \A i \in done : tasks[i].retry_count = CountAtSelection(i) + 1
          /\ \A i \in DOMAIN sw.snapshot \ done : tasks[i] = sw.snapshot[i]
          /\ sw.cur # 0 => /\ sw.calls[1] = "increment_retry"
                           /\ tasks[sw.cur].last_retry_at = clock

C3_Witness ==
  /\ sw.pc = "loop"
  /\ sw.queue = <<>>
  /\ Len(sw.attempted) = 2
  /\ \E i \in Range(sw.attempted) : CountAtSelection(i) >= 1

\* C7 as stated: a pipeline run whose download fails with a terminal kind
\* reports the failure and creates no FailedTask.
C7_TerminalFailureNotQueued ==
  (IsPipelineRun /\ lastRun.cause \in TerminalFailures) =>
    /\ lastRun.replies # <<>>
    /\ lastRun.newTasks = {}

\* C7 amended: a pipeline run whose download fails with a terminal kind
\* reports the failure to the originator and queues one Pending DOWNLOAD
\* task for the URL, which the next sweep selects.
C7_TerminalFailureIsQueued ==
  (IsPipelineRun /\ lastRun.cause \in TerminalFailures) =>
    /\ lastRun.replies = <<Reply("download_failed", lastRun.cause)>>
    /\ \E i \in DOMAIN tasks :
         /\ lastRun.newTasks = {i}
         /\ tasks[i] = [url |-> lastRun.url, chat |-> lastRun.chat,
                        error_type |-> "download", error_message |-> lastRun.cause,
                        retry_count |-> 0, last_retry_at |-> 0, status |-> "pending"]
         /\ SweepSelects(tasks[i])

C7_Witness ==
  /\ lastRun.handler = "threads"
  /\ lastRun.cause = "not_found"
  /\ lastRun.newTasks # {}

\* the stage a failed run is recorded under
StageOfEnd(e) ==
  CASE e = "download_failed" -> "download"
    [] e = "process_failed" -> "transcribe"
    [] e = "note_failed" -> "summarize"
    [] e = "done_unsaved" -> "sync"
    [] OTHER -> "none"

QueuedFor(i, stage) ==
  /\ tasks[i].url = lastRun.url
  /\ tasks[i].chat = lastRun.chat
  /\ tasks[i].error_type = stage
  /\ tasks[i].retry_count = 0
  /\ tasks[i].status = "pending"

C9_ProcessedUrlShortCircuits ==
  [][ (/\ lastRun'.handler = "handle_message"
       /\ lastRun'.url # "none"
       /\ RowsOf(lastRun'.url) # {})
        => /\ lastRun'.end = "cached"
           /\ \E i \in RowsOf(lastRun'.url) :
                lastRun'.replies =
                  <<Reply("cached", <<processed[i].title, processed[i].processed_at>>)>>
           /\ lastRun'.calls = <<>>
           /\ inflight' = inflight
           /\ tasks' = tasks
           /\ processed' = processed
    ]_vars

C9_Witness ==
  /\ lastRun.end = "cached"
  /\ \E i \in RowsOf(lastRun.url) : processed[i].chat # lastRun.chat

\* C10 as stated: processed_urls holds a row for a URL exactly when some
\* pipeline run for it, in the request path or in a retry, completed every
\* stage successfully.
C10_RecordedIffCompleted ==
  \A u \in URLS : RowsOf(u) # {} <=> u \in completedOK

\* ------------------------------------------------- claims on the dispatcher
Invoked(tier) == tier \in Range(d.tiers)
IsPrefix(s, t) == Len(s) <= Len(t) /\ \A i \in DOMAIN s : s[i] = t[i]
Tier1Answered == d.t1.kind # "none"
\* tier 1 produced a populated outcome: a non-error payload that parses
Tier1Succeeded == d.t1.kind = "data" /\ d.parsed = "ok"
\* tier 1 failed, and not with the terminal "not found"
Tier1FailedOpen == d.api_failed \/ d.parsed = "none"
Tier2Answered == d.ssr.content_type # "na"
Tier2Succeeded == d.ssr.content_type \in {"single_post", "thread"}

\* C4: within one call the tiers are invoked in the order API, crawler-facing
\* render, direct-render scraping, each at most once; scraping is invoked
\* only after the render has failed in the same call; when the API fails
\* non-terminally and the render succeeds, scraping is never invoked.
C4_TiersInPriorityOrder ==
  /\ IsPrefix(d.tiers, <<"api", "ssr", "scrape">>)
  /\ (Invoked("scrape") \/ d.pc = "scrape") =>
       /\ Invoked("ssr")
       /\ d.ssr.content_type = "none"
  /\ (Tier1FailedOpen /\ Tier2Succeeded) =>
       /\ ~Invoked("scrape")
       /\ d.pc = "done"
       /\ d.source = "ssr"

C4_Witness ==
  /\ d.pc = "done"
  /\ d.api_failed
  /\ d.ssr.content_type = "single_post"
  /\ d.tiers = <<"api", "ssr">>

\* C5 as stated: once a tier has returned a populated outcome no
\* lower-priority tier is invoked; after the API succeeds neither the
\* crawler-facing render nor scraping is requested.
C5_NothingAfterFirstSuccess ==
  /\ Tier1Succeeded => d.tiers = <<"api">>
  /\ Tier2Succeeded => ~Invoked("scrape")

\* C5 amended: after the API succeeds the crawler-facing render is still
\* requested, once, and scraping never; the call then succeeds, with the
\* render's result only when that is a thread of more than one post and with
\* the API's result otherwise.  On the fallback paths the call stops at the
\* first tier that succeeds.
C5_RenderConsultedAfterApiSuccess ==
  /\ (Tier1Succeeded /\ Tier2Answered) =>
       /\ d.tiers = <<"api", "ssr">>
       /\ d.pc \in {"replies", "done"}
       /\ d.pc = "done" =>
            /\ d.out # "failure"
            /\ d.source = "ssr" <=> (d.ssr.content_type = "thread" /\ d.ssr.posts > 1)
            /\ d.source = "ssr" => d.out = "thread"
            /\ d.source # "ssr" => d.source = "api"
  /\ (Tier1FailedOpen /\ Tier2Succeeded) =>
       /\ d.pc = "done"
       /\ d.tiers = <<"api", "ssr">>
       /\ d.out = d.ssr.content_type
  /\ (d.pc = "done" /\ d.source = "scrape") => d.tiers = <<"api", "ssr", "scrape">>

C5_Witness ==
  /\ d.pc = "done"
  /\ Tier1Succeeded
  /\ d.ssr.content_type = "single_post"
  /\ d.source = "api"
  /\ d.tiers = <<"api", "ssr">>

\* the answer of tier 1 says "not found" (or 404)
SaysNotFound(resp) == resp.kind \in {"payload", "raise"} /\ (resp.notfound \/ resp.has404)
\* the call ended at tier 1 with a Failure
FailedAtTier1 == d.pc = "done" /\ d.out = "failure" /\ d.tiers = <<"api">>
\* the call went on from tier 1 to tier 2
WentOnToTier2 == d.pc = "ssr" \/ (Len(d.tiers) >= 2 /\ d.tiers[2] = "ssr")

\* C6 as stated: whenever tier 1 reports "not found", in an error payload or
\* in a raised exception, the call returns a Failure at once without tier 2
\* or tier 3; on any other tier-1 error the call goes on to tier 2.
C6_NotFoundAlwaysTerminal ==
  /\ (Tier1Answered /\ d.t1.kind # "data") =>
       IF SaysNotFound(d.t1) THEN FailedAtTier1 ELSE WentOnToTier2
  /\ d.reason \in {"library_missing", "error", "rate_limited"} => Invoked("ssr")

\* C6 amended: an error payload whose message mentions "login" sends the call
\* on to tier 2 even when it also says "not found"; any other error payload or
\* raised exception that says "not found" (or 404) ends the call with a
\* Failure at once, without tier 2 or tier 3; every other error that
\* get_thread returns or raises sends the call on to tier 2; a failure to
\* obtain the API client ends the call with a Failure before any tier.
C6_NotFoundTerminalUnlessLogin ==
  /\ (Tier1Answered /\ d.t1.kind # "data") =>
       IF SaysNotFound(d.t1) /\ ~(d.t1.kind = "payload" /\ d.t1.login)
       THEN FailedAtTier1 /\ d.reason = "not_found"
       ELSE WentOnToTier2 /\ d.api_failed
  /\ d.reason \in {"library_missing", "error", "rate_limited"} =>
       /\ d.tiers = <<>>
       /\ d.out = "failure"

C6_Witness ==
  /\ d.t1.kind = "payload"
  /\ d.t1.login
  /\ d.t1.notfound
  /\ Invoked("ssr")

\* ------------------------------------------ claims on the crawler-render tier
\* the extractor returned its list: the call got past the finditer loop
ExtractorReturned ==
  /\ ssr.pc = "done"
  /\ \A i \in DOMAIN ssr.log : ssr.log[i].outcome # "raised"
  /\ \E i \in DOMAIN ssr.html : ssr.html[i].ch = "K"
\* the discovered posts by the author of the first discovered post
ByOriginalAuthor ==
  {p \in Range(ssr.all_posts) : p.author_username = ssr.all_posts[1].author_username}

\* C11: a thread result holds exactly the discovered posts whose author is the
\* author of the first discovered post, each once and in discovery order, so
\* every post of the thread has the author of its first post.
C11_ThreadIsOriginalAuthorsPosts ==
  (ExtractorReturned /\ ssr.result.content_type = "thread") =>
    LET posts == ssr.result.posts
    IN /\ Range(posts) = ByOriginalAuthor
       /\ Len(posts) = Cardinality(ByOriginalAuthor)
       /\ \A i, j \in DOMAIN posts : i < j => posts[i].at < posts[j].at
       /\ \A i \in DOMAIN posts : posts[i].author_username = posts[1].author_username

C11_Witness ==
  /\ ExtractorReturned
  /\ Len(ssr.all_posts) = 5
  /\ ssr.result.content_type = "thread"
  /\ ssr.result.posts = <<ssr.all_posts[1], ssr.all_posts[2], ssr.all_posts[4]>>

\* C12: the tier answers with a thread exactly when more than one discovered
\* post is by the author of the first one; with exactly one such post it
\* answers with a single post holding that post, whatever the number of posts
\* by other authors.
C12_ThreadIffSeveralAuthorPosts ==
  (ExtractorReturned /\ ssr.all_posts # <<>>) =>
    /\ ssr.result.content_type = "thread" <=> Cardinality(ByOriginalAuthor) > 1
    /\ Cardinality(ByOriginalAuthor) = 1 =>
         /\ ssr.result.content_type = "single_post"
         /\ ssr.result.posts = <<ssr.all_posts[1]>>

C12_Witness ==
  /\ ExtractorReturned
  /\ Len(ssr.all_posts) = 3
  /\ Cardinality(ByOriginalAuthor) = 1
  /\ ssr.result.content_type = "single_post"

\* the anchor occurrence at page position i has a balanced array that is JSON
BlockParses(i) ==
  LET fc == FindClose(ssr.html, i + 1, 0)
  IN fc.depth = 0 /\ IsJson(SubSeq(ssr.html, i + 1, fc.pos))
\* the page positions of the post fragments: the post objects that are items
\* of an anchor occurrence whose array parses
Fragments ==
  {j \in DOMAIN ssr.html :
     /\ ssr.html[j].post
     /\ \E i \in AnchorMatches(ssr.html) :
          /\ BlockParses(i)
          /\ LET a == SubSeq(ssr.html, i + 1, FindClose(ssr.html, i + 1, 0).pos)
             IN j - i \in Range(ItemsFrom(a, 2))}
FragmentsWithCode(c) == {j \in Fragments : ssr.html[j].code = c}
UsableWithCode(c) == {j \in FragmentsWithCode(c) : ssr.html[j].ok}
ReturnedWithCode(c) == {k \in DOMAIN ssr.all_posts : ssr.all_posts[k].id = c}

\* C13 as stated: the extractor returns no two fragments with the same code;
\* for every code that a usable fragment carries, exactly one fragment with
\* that code is returned, and it is the first usable one in markup order (so
\* two fragments with distinct codes are both returned and two sharing a code
\* yield one).
C13_FirstOccurrencePerCode ==
  ExtractorReturned =>
    \A j \in Fragments :
      ssr.html[j].ok =>
        LET c == ssr.html[j].code
            first == CHOOSE f \in UsableWithCode(c) :
                       \A g \in UsableWithCode(c) : f <= g
        IN /\ Cardinality(ReturnedWithCode(c)) = 1
           /\ \A k \in ReturnedWithCode(c) : ssr.all_posts[k].at = first

\* C14 as stated: the pass is never aborted: occurrences that are unbalanced
\* or hold no usable post objects are skipped and the posts of every other
\* occurrence are still returned (but for repeated codes); a page without the
\* anchor key gives an empty result.
C14_PassNeverAborted ==
  ssr.pc = "done" =>
    /\ \A j \in Fragments :
         ssr.html[j].ok =>
           \/ ReturnedWithCode(ssr.html[j].code) # {}
           \/ \E g \in FragmentsWithCode(ssr.html[j].code) : g < j
    /\ (\A i \in DOMAIN ssr.html : ssr.html[i].ch # "K") =>
         ssr.result = SsrOut("none", <<>>) /\ ssr.log = <<>>

\* a call of the analyzer on at least one item has returned
AnalysisReturned == ana.pc = "done" /\ ana.items # <<>>
ExpectedText(item) == IF item = "bad" THEN Placeholder ELSE Describe(item)

\* C15: the analyzer returns one description per input item and the i-th
\* description is the one produced from the i-th item, whichever item
\* finished first.
C15_ResultsAlignedWithItems ==
  AnalysisReturned =>
    /\ Len(ana.out.frame_descriptions) = Len(ana.items)
    /\ \A i \in DOMAIN ana.items :
         /\ ana.out.frame_descriptions[i].timestamp = i - 1
         /\ ana.out.frame_descriptions[i].description
              = ExpectedText(ana.items[i])
\* the last of at least three items finished first and differs from the first
C15_Witness ==
  /\ AnalysisReturned
  /\ Len(ana.items) >= 3
  /\ ana.first = Len(ana.items)
  /\ ana.items[1] # ana.items[Len(ana.items)]
  /\ ana.out.frame_descriptions[1].description = ExpectedText(ana.items[1])

\* C16: at no moment of a call are more than PARALLEL_ANALYSIS (3) analyses
\* started and not finished, and every item of a running call is eventually
\* analyzed.
C16_AtMostThreeActiveAndAllAnalyzed ==
  /\ [](Cardinality(AnaActive) <= PARALLEL_ANALYSIS)
  /\ (ana.pc = "running")
       ~> (ana.pc = "done" /\ \A i \in DOMAIN ana.items :
                                 ana.st[i] = "finished")
\* the limit binds: three analyses run while a fourth item waits
C16_Witness ==
  /\ Cardinality(AnaActive) = PARALLEL_ANALYSIS
  /\ \E i \in DOMAIN ana.st : ana.st[i] = "waiting"

\* C17: when the analysis of one item fails, the call still succeeds with one
\* description per item, the failed index holds the placeholder and every
\* other index holds the description of its own item.
C17_FailureIsIsolated ==
  AnalysisReturned =>
    /\ ana.out.success
    /\ Len(ana.out.frame_descriptions) = Len(ana.items)
    /\ \A i \in DOMAIN ana.items :
         IF ana.items[i] = "bad"
         THEN ana.out.frame_descriptions[i].description = Placeholder
         ELSE ana.out.frame_descriptions[i].description \in {"about p", "about q"}
                /\ ana.out.frame_descriptions[i].description # Placeholder
\* item 3 of 4 failed, after a sibling had finished and before another did
C17_Witness ==
  /\ AnalysisReturned
  /\ Len(ana.items) = MaxItems
  /\ {i \in DOMAIN ana.items : ana.items[i] = "bad"} = {3}
  /\ ana.out.frame_descriptions[3].description = Placeholder
  /\ \A i \in DOMAIN ana.items \ {3} :
       ana.out.frame_descriptions[i].description = Describe(ana.items[i])

\* a call of download_media on at least one medium has returned
AcquireReturned == acq.pc = "done" /\ acq.media_list # <<>>
\* the media the call is done with: downloaded, or given up
Settled == {k \in DOMAIN acq.media_list : k < acq.i}
Succeeded == {k \in DOMAIN acq.media_list : acq.won[k] > 0}
Dropped == {k \in Settled : acq.won[k] = 0}
ManifestPaths == Range(acq.out.image_paths) \cup Range(acq.out.video_paths)

\* C18: every medium is attempted at most 3 times (one attempt and 2
\* retries) and not again after its first success; a medium that failed 3
\* times does not end the call: when the call returns every medium has been
\* attempted and the result holds exactly one path for each medium that was
\* downloaded.
C18_BoundedRetriesPartialBatch ==
  /\ \A k \in DOMAIN acq.media_list :
       /\ acq.attempts[k] <= 3
       /\ acq.won[k] > 0 => acq.attempts[k] = acq.won[k]
       /\ k \in Dropped => acq.attempts[k] = 3
  /\ AcquireReturned =>
       /\ \A k \in DOMAIN acq.media_list : acq.attempts[k] >= 1
       /\ ManifestPaths = Succeeded
       /\ Len(acq.out.image_paths) + Len(acq.out.video_paths)
            = Cardinality(Succeeded)
       /\ \A k \in Succeeded :
            IF acq.media_list[k] = "image"
            THEN k \in Range(acq.out.image_paths)
            ELSE k \in Range(acq.out.video_paths)
\* the first medium failed three times, a later one was downloaded on a retry
C18_Witness ==
  /\ AcquireReturned
  /\ Len(acq.media_list) >= 2
  /\ acq.won[1] = 0 /\ acq.attempts[1] = 3
  /\ \E k \in Succeeded : acq.won[k] = 2 /\ k \in ManifestPaths

\* C19 as stated: a result of a call in which some medium was dropped carries
\* a signal that tells it from the result of a call in which every medium was
\* downloaded (which has success true and no error message).
C19_DroppedRefIsSignalled ==
  (AcquireReturned /\ Dropped # {}) =>
    (~acq.out.success \/ acq.out.error_message # "none")

\* C19, amended: the result carries no partial flag.  success is true exactly
\* when at least one image or video was downloaded and error_message is set
\* exactly when none was; that media were dropped shows only in the result
\* holding fewer image and video paths than the list had media.
C19_DropsShowOnlyInPathCount ==
  AcquireReturned =>
    /\ acq.out.success <=> Succeeded # {}
    /\ acq.out.error_message # "none" <=> Succeeded = {}
    /\ Dropped # {} <=>
         Len(acq.out.image_paths) + Len(acq.out.video_paths)
           < Len(acq.media_list)
\* one medium was dropped, another downloaded, and the result reports success
C19_Witness ==
  /\ AcquireReturned
  /\ Dropped # {}
  /\ Succeeded # {}
  /\ acq.out.success
  /\ acq.out.error_message = "none"

\* the videos for which ffprobe ran and listed no audio stream
SilentVideos ==
  {k \in DOMAIN acq.media_list :
     acq.media_list[k] = "video" /\ acq.probe[k] = "silent"}

\* C20: for a downloaded video in which ffprobe finds no audio stream, ffmpeg
\* is never invoked, and the result holds the video path, no audio path for
\* it, and no error.
C20_SilentVideoSkipsExtraction ==
  \A k \in SilentVideos :
    /\ k \notin acq.extracted
    /\ k \in Range(acq.video_paths)
    /\ k \notin Range(acq.audio_paths)
    /\ AcquireReturned =>
         /\ k \in Range(acq.out.video_paths)
         /\ k \notin Range(acq.out.audio_paths)
         /\ acq.out.success
         /\ acq.out.error_message = "none"
\* a silent video was returned next to a video whose audio was extracted
C20_Witness ==
  /\ AcquireReturned
  /\ \E k \in SilentVideos : k \in Range(acq.out.video_paths)
  /\ \E j \in acq.extracted : j \in Range(acq.out.audio_paths)

\* the stage a collaborator call belongs to: 1 acquire, 2 transcribe/analyze,
\* 3 summarize, 4 publish, 5 record the URL; 0 for the bookkeeping around them
StageRank(call) ==
  CASE call \in {"download", "download_post", "download_media"} -> 1
    [] call \in {"transcribe", "analyze"} -> 2
    [] call = "summarize" -> 3
    [] call = "publish" -> 4
    [] call = "record" -> 5
    [] OTHER -> 0
StageCalls(calls) == SelectSeq(calls, LAMBDA c : StageRank(c) > 0)
InStageOrder(calls) ==
  LET sc == StageCalls(calls)
  IN /\ \A i \in 1..(Len(sc) - 1) : StageRank(sc[i]) <= StageRank(sc[i + 1])
     /\ \A i \in 1..(Len(sc) - 1) :
          StageRank(sc[i + 1]) >= 3 => StageRank(sc[i]) < StageRank(sc[i + 1])
     /\ \A i \in 1..(Len(sc) - 1) :
          StageRank(sc[i + 1]) >= 4 => StageRank(sc[i + 1]) = StageRank(sc[i]) + 1
     /\ sc # <<>> => StageRank(sc[1]) = 1

RequestPublishFailed == IsPipelineRun /\ lastRun.end = "done_unsaved"
\* a scheduler attempt whose summary was generated and whose store call
\* returned a failure
RetryPublishFailed ==
  /\ sw.cur # 0
  /\ sw.result = "failed"
  /\ StageCalls(sw.calls) # <<>>
  /\ StageCalls(sw.calls)[Len(StageCalls(sw.calls))] = "publish"
SummaryReplied == \E k \in DOMAIN lastRun.replies : lastRun.replies[k].detail = "summary"
SummaryNotified ==
  \E k \in DOMAIN sw.notes :
    sw.notes[k].detail = "summary" /\ sw.notes[k].to = tasks[sw.cur].chat

\* C22 as stated: when the summary was produced and the store call then
\* failed, on a request and on a scheduler attempt alike, the summary is sent
\* to the originator and a sync-stage task is left pending.
C22_PublishFailureStaysQueued ==
  /\ RequestPublishFailed =>
       /\ SummaryReplied
       /\ \E i \in lastRun.newTasks :
            tasks[i].error_type = "sync" /\ tasks[i].status = "pending"
  /\ RetryPublishFailed =>
       /\ SummaryNotified
       /\ tasks[sw.cur].error_type = "sync"
       /\ tasks[sw.cur].status = "pending"

\* C22, amended: the summary is sent and the failure is recorded as a
\* sync-stage failure in both paths; the request path queues a pending task,
\* and a scheduler attempt leaves the task pending unless the attempt was
\* the last the retry budget allows, in which case the task is abandoned.
C22_PublishFailureKeepsSummary ==
  /\ RequestPublishFailed =>
       /\ SummaryReplied
       /\ \E i \in lastRun.newTasks :
            /\ tasks[i].error_type = "sync"
            /\ tasks[i].status = "pending"
            /\ tasks[i].retry_count = 0
  /\ RetryPublishFailed =>
       /\ SummaryNotified
       /\ tasks[sw.cur].error_type = "sync"
       /\ tasks[sw.cur].status
            = IF tasks[sw.cur].retry_count >= max_retry_count
              THEN "abandoned" ELSE "pending"
\* a scheduler attempt that delivered the summary and abandoned the task
C22_Witness ==
  /\ RetryPublishFailed
  /\ SummaryNotified
  /\ tasks[sw.cur].status = "abandoned"
  /\ tasks[sw.cur].error_type = "sync"

\* the scheduler attempt just made abandoned its task
AttemptAbandoned ==
  /\ sw.cur # 0
  /\ sw.snapshot[sw.cur].status = "pending"
  /\ tasks[sw.cur].status = "abandoned"
AbandonNotices == {k \in DOMAIN sw.notes : sw.notes[k].kind = "abandoned"}
\* the error of the attempt just made: the message of the stage that returned
\* a failure, or the exception that was raised
AttemptError ==
  LET sc == StageCalls(sw.calls)
  IN IF sw.result = "raised" THEN "exception"
     ELSE IF sc = <<>> THEN "bad_link"
     ELSE CASE sc[Len(sc)] = "download" -> "download_error"
            [] sc[Len(sc)] = "transcribe" -> "transcribe_error"
            [] sc[Len(sc)] = "summarize" -> "note_error"
            [] OTHER -> "sync_error"

\* C23 as stated: an attempt that abandons its task sends the task's
\* originator an abandonment notice that quotes the error of that attempt.
C23_AbandonNoticeQuotesLastError ==
  AttemptAbandoned =>
    /\ AbandonNotices # {}
    /\ \A k \in AbandonNotices :
         /\ sw.notes[k].to = tasks[sw.cur].chat
         /\ sw.notes[k].detail = AttemptError

\* the ways a request-path run ends in failure
FailureEnds == {"download_failed", "process_failed", "note_failed", "no_content", "exception"}

\* C24 as stated: a request-path run that fails sends exactly one message,
\* and a scheduler attempt that abandons its task sends exactly one message,
\* the abandonment notice.
C24_OneNoticePerTerminalFailure ==
  /\ (IsPipelineRun /\ lastRun.end \in FailureEnds) => Len(lastRun.replies) = 1
  /\ AttemptAbandoned =>
       /\ Len(sw.notes) = 1
       /\ sw.notes[1].kind = "abandoned"

\* C30: with the trigger firing again and again, every failed task ends up
\* succeeded or abandoned and stays so; no task is attempted more than
\* max_retry_count times, and a task that has used its last attempt is not
\* left pending.
C30_EveryTaskReachesTerminal ==
  /\ [](\A i \in DOMAIN tasks :
          /\ tasks[i].retry_count <= max_retry_count
          /\ tasks[i].retry_count = max_retry_count => TaskIsTerminal(tasks[i]))
  /\ <>[](\A i \in DOMAIN tasks : TaskIsTerminal(tasks[i]))
\* two tasks, one abandoned after its last attempt, one succeeded on a retry
C30_Witness ==
  /\ Len(tasks) = 2
  /\ \E i \in DOMAIN tasks :
       tasks[i].status = "abandoned" /\ tasks[i].retry_count = max_retry_count
  /\ \E i \in DOMAIN tasks :
       tasks[i].status = "success" /\ tasks[i].retry_count >= 1

\* ---------------------------------------------------------------- C29
RECURSIVE BackslashRun(_, _, _)
\* the number of backslashes that stand immediately before position j
BackslashRun(h, from, j) ==
  IF j - 1 < from \/ h[j - 1].ch # "e" THEN 0
  ELSE 1 + BackslashRun(h, from, j - 1)

\* the quotes in from..p that open or close a string
StringQuotes(h, from, p) ==
  {j \in from..p : h[j].ch = "q" /\ BackslashRun(h, from, j) % 2 = 0}

\* position p lies inside a quoted string that was opened at or after from
InsideString(h, from, p) == Cardinality(StringQuotes(h, from, p - 1)) % 2 = 1

\* the nesting depth after position p, counting brackets outside strings
BracketDepth(h, from, p) ==
  Cardinality({j \in from..p : h[j].ch = "[" /\ ~InsideString(h, from, j)})
  - Cardinality({j \in from..p : h[j].ch = "]" /\ ~InsideString(h, from, j)})

\* the positions at which the bracket opened at from is closed
MatchingCloses(h, from) ==
  {p \in from..Len(h) :
     /\ h[p].ch = "]" /\ ~InsideString(h, from, p)
     /\ BracketDepth(h, from, p) = 0}

\* C29: for each anchor occurrence the scanner starts on the anchor's opening
\* bracket and stops on the first bracket outside a quoted string at which the
\* depth is back to zero, a quote after a backslash not ending the string; it
\* reports the block as unbalanced exactly when no such bracket exists.
C29_ScannerYieldsBalancedBlock ==
  \A k \in DOMAIN ssr.log :
    LET e == ssr.log[k]
        closes == MatchingCloses(ssr.html, e.at)
    IN /\ ssr.html[e.at].ch = "["
       /\ IF e.outcome = "unbalanced" THEN closes = {}
          ELSE /\ closes # {}
               /\ e.close \in closes
               /\ \A p \in closes : e.close <= p

\* a block was parsed whose string holds a bracket and an escaped quote
C29_Witness ==
  \E k \in DOMAIN ssr.log :
    LET e == ssr.log[k]
    IN /\ e.outcome = "parsed"
       /\ \E p \in e.at..e.close :
            ssr.html[p].ch \in {"[", "]"} /\ InsideString(ssr.html, e.at, p)
       /\ \E p \in e.at..e.close :
            /\ ssr.html[p].ch = "q" /\ BackslashRun(ssr.html, e.at, p) = 1
            /\ InsideString(ssr.html, e.at, p)

\* ---------------------------------------------------------------- C27
\* the ids that a handle_message call dropped from the filter
EvictedIds == (seenIds \cup {lastRun'.id}) \ seenIds'

PostHosts(entry) ==
  IF entry = "threads_download" THEN {"threads.net", "threads.com"}
  ELSE {"instagram.com"}
PostPaths(entry) ==
  IF entry = "threads_download" THEN {"t", "@post"} ELSE {"reel", "p", "reels"}
\* the text of the link starts with a post URL of the platform
IsPostLink(entry, url) ==
  /\ url.lead = "" /\ url.scheme \in {"http", "https"}
  /\ url.host \in PostHosts(entry) /\ url.path \in PostPaths(entry)
  /\ url.path = "@post" => url.user = "alice"
  /\ url.id \in {"ABC123xyz", "AB%41"}

\* C28: a link that is no post URL of the platform makes download return the
\* unsupported-link failure without any tier or fetch, while a post URL always
\* reaches the fetch and fails, if it does, with another error; validate_url
\* holds exactly when extract_post_id returns an id, which it does for reel,
\* p and reels paths with or without www and for no other host.
C28_UnsupportedLinkDistinct ==
  linkCall.pc = "done" =>
    /\ ~IsPostLink(linkCall.entry, linkCall.url) =>
          /\ ~linkCall.result.success
          /\ linkCall.result.error = "unsupported_link"
          /\ linkCall.result.fetches = <<>>
    /\ IsPostLink(linkCall.entry, linkCall.url) =>
          /\ linkCall.result.fetches # <<>>
          /\ linkCall.result.error \in {"none", "download_failed", "download_raised"}
    /\ linkCall.valid <=> linkCall.post_id # "none"
    /\ linkCall.valid <=> IsPostLink(linkCall.entry, linkCall.url)
    /\ linkCall.valid /\ linkCall.url.id = "ABC123xyz" => linkCall.post_id = "ABC123xyz"

\* download_post was given an Instagram link with an unsupported path and
\* returned the unsupported-link failure
C28_Witness ==
  /\ linkCall.pc = "done" /\ linkCall.entry = "download_post"
  /\ linkCall.url.host = "instagram.com" /\ linkCall.url.path = "tv" /\ linkCall.url.id = "ABC123xyz"
  /\ linkCall.url.lead = "" /\ linkCall.url.scheme = "https"
  /\ linkCall.result.error = "unsupported_link"

\* ---------------------------------------------------------------- C21
\* C21: when a pipeline run has returned, in the request path or in a
\* scheduler retry, none of the files its downloads wrote is left in storage.
C21_ManifestRemoved ==
  /\ lastRun.handler \in {"reel", "post", "threads"} => FilesLeft(lastRun.calls) = {}
  /\ sw.cur # 0 => FilesLeft(sw.calls) = {}

\* what does hold: the request handlers leave no file behind, and a retry
\* leaves at most the video file
C21_RequestPathCleansUp ==
  /\ lastRun.handler \in {"reel", "post", "threads"} => FilesLeft(lastRun.calls) = {}
  /\ sw.cur # 0 => FilesLeft(sw.calls) \subseteq {"video"}

\* a request run that downloaded audio and video has returned
C21_Witness ==
  /\ lastRun.handler = "reel"
  /\ DownloadedFiles(lastRun.calls) = {"audio", "video"}

\* ---------------------------------------------------------------- C26
\* C26: whatever becomes of the notifications of an accepted request, its
\* pipeline runs, and the failed-task rows and processed-URL rows it leaves
\* are those that the platform handler writes for some outcome of its stages.
C26_DeliveryFailureNotPropagated ==
  [][(seenIds' # seenIds /\ lastRun'.handler \in {"reel", "post", "threads"}) =>
       \E o \in OutcomesOf(lastRun'.handler) :
         LET res == RunHandler(lastRun'.handler, tasks, processed, lastRun'.url,
                               lastRun'.chat, o, clock)
         IN /\ lastRun'.calls = res.calls
            /\ tasks' = res.tasks
            /\ processed' = res.processed]_vars

\* what does hold: a first reply that times out, and edits that fail, change
\* nothing in what the run writes
C26_TimeoutNotPropagated ==
  [][(seenIds' # seenIds /\ lastRun'.handler \in {"reel", "post", "threads"}
        /\ lastRun'.end # "reply_raised") =>
       \E o \in OutcomesOf(lastRun'.handler) :
         LET res == RunHandler(lastRun'.handler, tasks, processed, lastRun'.url,
                               lastRun'.chat, o, clock)
         IN /\ lastRun'.calls = res.calls
            /\ tasks' = res.tasks
            /\ processed' = res.processed]_vars

\* ---------------------------------------------------------------- C31
\* ErrorType, the recorded failure stages
ErrorTypes == {"download", "transcribe", "summarize", "sync"}
\* the stage at which the attempt just made stopped
AttemptStage ==
  LET sc == StageCalls(sw.calls)
  IN IF sc = <<>> THEN "download"
     ELSE CASE sc[Len(sc)] = "download" -> "download"
            [] sc[Len(sc)] = "transcribe" -> "transcribe"
            [] sc[Len(sc)] = "summarize" -> "summarize"
            [] OTHER -> "sync"
\* the calls of an attempt on the task just attempted do not depend on the
\* stage recorded in it, and begin with the download
AttemptIgnoresStage ==
  sw.cur # 0 =>
    LET t == increment_retry(sw.snapshot[sw.cur], clock)
    IN \A st \in ErrorTypes, o \in RetryOutcomes :
         LET res == retry_by_error_type([t EXCEPT !.error_type = st], o)
         IN /\ res.calls = retry_by_error_type(t, o).calls
            /\ res.result = retry_by_error_type(t, o).result
            /\ validate_url(t.url) => res.calls[1] = "download"

\* C31: a retry attempt makes the same calls, from the download on, whatever
\* stage the task records, and an attempt that fails leaves in the task the
\* stage and the message of the failure of this attempt.
C31_RetryRerunsAndOverwrites ==
  /\ AttemptIgnoresStage
  /\ (sw.cur # 0 /\ sw.result # "success") =>
       /\ tasks[sw.cur].error_type = AttemptStage
       /\ tasks[sw.cur].error_message = AttemptError

\* what does hold: the same, for attempts in which a stage returned a failure
C31_ReturnedFailureOverwrites ==
  /\ AttemptIgnoresStage
  /\ (sw.cur # 0 /\ sw.result = "failed") =>
       /\ tasks[sw.cur].error_type = AttemptStage
       /\ tasks[sw.cur].error_message = AttemptError

\* ---------------------------------------------------------------- C32
\* the payload fields that a result has set
PopulatedTags(r) ==
  (IF r.post THEN {"post"} ELSE {})
  \cup (IF r.conversation # "none" THEN {"conversation"} ELSE {})
  \cup (IF r.thread_posts > 0 THEN {"thread_posts"} ELSE {})
  \cup (IF r.error_message # "none" THEN {"error_message"} ELSE {})

\* C32: a result of the Threads dispatcher has exactly one of post,
\* conversation, thread_posts and error_message set: the post for a single
\* post, a list of at least two posts for a thread, a conversation with
\* replies for a conversation, and the error message for a failure.
C32_ExactlyOneTag ==
  d.pc = "done" =>
    LET r == d.result
    IN /\ Cardinality(PopulatedTags(r)) = 1
       /\ r.success =>
            CASE r.content_type = "single_post" -> r.post
              [] r.content_type = "thread" -> r.thread_posts >= 2
              [] r.content_type = "thread_conversation" -> r.conversation = "replies"
              [] OTHER -> FALSE
       /\ ~r.success => r.error_message # "none"
       /\ r.success <=> d.out # "failure"
       /\ r.success => r.content_type = d.out

\* the dispatcher returned a conversation built from the API's post
C32_Witness ==
  /\ d.pc = "done" /\ d.result.success
  /\ d.result.content_type = "thread_conversation"
  /\ d.source = "api"

\* ---------------------------------------------------------------- C33
\* the platform handler that handle_message picks for a URL
KindOf(url) ==
  IF extract_threads_url(url) # "none" /\ threads_enabled THEN "threads"
  ELSE IF is_reel_url(url) THEN "reel" ELSE "post"
\* the stage of the last stage call of a run
CallStage(calls) ==
  LET sc == SelectSeq(calls, LAMBDA c : StageRank(c) \in 1..4)
  IN IF sc = <<>> THEN "download"
     ELSE CASE StageRank(sc[Len(sc)]) = 1 -> "download"
            [] StageRank(sc[Len(sc)]) = 2 -> "transcribe"
            [] StageRank(sc[Len(sc)]) = 3 -> "summarize"
            [] OTHER -> "sync"
\* the stage at which a request run, started with an empty queue, failed
RequestStage(res) ==
  IF res.tasks # <<>> THEN res.tasks[Len(res.tasks)].error_type
  ELSE CallStage(res.calls)
\* the stage at which a retry run failed
RetryStage(rr) ==
  IF rr.result = "failed" THEN rr.task.error_type ELSE CallStage(rr.calls)

\* C33: for the task just attempted and every way its kind's collaborators
\* can answer, the retry run and a request run of the same URL both succeed
\* or both fail, and fail at the same stage.  (Runs of an image post that
\* never reach downloader.download fix no answer for the retry's download
\* and are left out.)
C33_RetryMatchesRequestPath ==
  sw.cur # 0 =>
    LET t == increment_retry(sw.snapshot[sw.cur], clock)
    IN \A o \in OutcomesOf(KindOf(t.url)) :
         LET res == RunHandler(KindOf(t.url), <<>>, <<>>, t.url, t.chat, o, clock)
             rr == retry_by_error_type(t, o)
         IN o.dl # "na" =>
              /\ res.ok <=> rr.result = "success"
              /\ ~res.ok => RequestStage(res) = RetryStage(rr)

\* ---------------------------------------------------------------- C34
\* the URLs with a row in processed_urls / with a Pending failed task
ProcessedUrls == {processed[j].url : j \in DOMAIN processed}
PendingUrls == {tasks[i].url : i \in {k \in DOMAIN tasks : tasks[k].status = "pending"}}

\* C34: no URL is recorded as processed while a Pending failed task exists
\* for it; the scheduler attempts no task whose URL is recorded as processed,
\* and no submitter is told "already processed" for a URL that is queued.
C34_ProcessedNeverPending ==
  /\ ProcessedUrls \cap PendingUrls = {}
  /\ sw.cur # 0 => sw.snapshot[sw.cur].url \notin ProcessedUrls
  /\ lastRun.end = "cached" => lastRun.url \notin PendingUrls

\* ---------------------------------------------------------------- C35
\* the positions of the success replies among the replies of the last run
SuccessReplies ==
  {k \in DOMAIN lastRun.replies : lastRun.replies[k].kind \in {"done", "done_unsaved"}}

\* C35: a URL has at most one processed-URL row, also when two requests for
\* it ran at the same time; a run whose stages all succeeded ends with its
\* success reply, and a success reply is never followed by another message.
C35_ConcurrentSuccessKeepsReply ==
  /\ \A i, j \in DOMAIN processed : processed[i].url = processed[j].url => i = j
  /\ \A k \in SuccessReplies : k = Len(lastRun.replies)
  /\ (lastRun.handler \in {"reel", "post", "threads"} /\ lastRun.ok) =>
       /\ SuccessReplies # {}
       /\ lastRun.url \in ProcessedUrls

\* ---------------------------------------------------------------- C36
\* C36: no two Pending failed tasks carry the same URL, and the tasks that
\* one sweep has attempted carry different URLs.
C36_OnePendingTaskPerUrl ==
  /\ \A i, j \in DOMAIN tasks :
       (tasks[i].status = "pending" /\ tasks[j].status = "pending"
          /\ tasks[i].url = tasks[j].url) => i = j
  /\ \A a, b \in DOMAIN sw.attempted :
       sw.snapshot[sw.attempted[a]].url = sw.snapshot[sw.attempted[b]].url => a = b

\* ---------------------------------------------------------------- C37
\* C37: an update whose message id arrived in this behaviour is skipped by
\* the message-id filter only if the same update (same chat, same message
\* id) passed the filter earlier, and the
\* update that handle_message has just let through is skipped when it comes
\* again.
C37_SkipsOnlyTheSameRequest ==
  /\ \A chat \in Chats, mid \in {p[2] : p \in accepted} :
       Skips(seenIds, chat, mid) => <<chat, mid>> \in accepted
  /\ (lastRun.handler = "handle_message" /\ lastRun.end # "duplicate_message")
       => Skips(seenIds, lastRun.chat, lastRun.id)
\* the second half of C37 alone
C37_AcceptedIsRecognized ==
  (lastRun.handler = "handle_message" /\ lastRun.end # "duplicate_message")
    => Skips(seenIds, lastRun.chat, lastRun.id)

\* ---------------------------------------------------------------- C38
\* the files that cleanup_media removes for a download_media result
ManifestFiles(r) ==
  {<<"image", k>> : k \in Range(r.image_paths)}
    \cup {<<"video", k>> : k \in Range(r.video_paths)}
    \cup {<<"audio", k>> : k \in Range(r.audio_paths)}

\* C38: when download_media has returned, every file it created is listed in
\* the returned result.
C38_NoFileOutsideManifest ==
  acq.pc = "done" => acq.files \subseteq ManifestFiles(acq.out)

\* ---------------------------------------------------------------- C39
\* the fragment at page position j is among the returned posts
Kept(j) == \E q \in Range(ssr.all_posts) : q.at = j

\* C39: a usable post object of a parsed block that the extractor did not
\* return (the duplicate test of line 537 dropped it) has a code, and a post
\* returned from earlier in the page carries the same code.
C39_DroppedOnlyAsRepeatOfKept ==
  ExtractorReturned =>
    \A j \in Fragments :
      (ssr.html[j].ok /\ ~Kept(j)) =>
        /\ ssr.html[j].code # 0
        /\ \E q \in Range(ssr.all_posts) : q.at < j /\ q.id = ssr.html[j].code
\* the second half of C39 alone: a usable post object without a code is
\* returned
C39_CodelessNotCollapsed ==
  ExtractorReturned =>
    \A j \in Fragments : (ssr.html[j].ok /\ ssr.html[j].code = 0) => Kept(j)

\* ---------------------------------------------------------------- C40
\* C40: for a link that names a handle, every post of the single post or
\* thread that the Googlebot tier returns is by that handle.
C40_ResultIsByUrlAuthor ==
  (ExtractorReturned /\ ssr.url_user # "none"
     /\ ssr.result.content_type \in {"single_post", "thread"}) =>
    \A p \in Range(ssr.result.posts) : p.author_username = ssr.url_user

====
